---- MODULE Spec2Model ----
(***************************************************************************)
(* A model of the depot (graco) orchestrator: workspace dependency graph,  *)
(* the per-package task scheduler (parallel mode and wave mode), the       *)
(* command dispatcher's exit code, and BuildCommand.run for one package.   *)
(***************************************************************************)
EXTENDS Naturals, FiniteSets, Sequences, TLC

(* ----------------------------- bounds --------------------------------- *)

\* Largest number of dependency entries over all manifests of a workspace.
MaxDeps == 3

\* Package names a manifest or a -p option can mention.  A name that is not
\* a package of the drawn workspace is an external dependency (in a
\* manifest) or an unknown package (after -p).
Names == {"bar", "baz", "foo"}

\* Object.keys order of pkgMap / depGraph.
KeyOrder == <<"bar", "baz", "foo">>

\* Which manifest map a dependency on a given name is written in.
DepKind(n) == IF n = "foo" THEN "dependencies"
              ELSE IF n = "bar" THEN "devDependencies"
              ELSE "peerDependencies"

VARIABLES
  pkgNames,     \* Object.keys(ws.pkgMap): names of the workspace's packages
  manifest,     \* manifest[p]: the three dependency maps of p's package.json
  depGraph,     \* ws.depGraph
  cmd,          \* the Command instance handed to ws.run
  only,         \* flags.packages: [given |-> BOOLEAN, names |-> set]
  pc,           \* position of the commander action of register()
  status,       \* runPackages' status map (wave mode)
  result,       \* per package: the promise returned by cmd.run(pkg)
  promise,      \* the wave scheduler's promise: pending, resolved, rejected
  pkgSuccess,   \* what runPackages returned: "none", "ok", "fail"
  wsCalls,      \* number of calls of cmd.runWorkspace
  wsResult,     \* the promise returned by cmd.runWorkspace
  wsOverlap,    \* cmd.runWorkspace was called while a package task was pending
  exitCode,     \* "none" while the process lives (pc # "exited"), else its status
  build,        \* BuildCommand.run for one package (see the build section)
  outcome,      \* per package: what its task will return ("any": not fixed)
  fsys,         \* the files Workspace.load and Package look at, and what they found
  runner,       \* children spawned by spawn(), signal handlers, signals
  logger,       \* OnceLogger
  tui           \* WatchLogger

vars == <<pkgNames, manifest, depGraph, cmd, only, pc, status, result,
          promise, pkgSuccess, wsCalls, wsResult, wsOverlap, exitCode, build,
          outcome, fsys, runner, logger, tui>>

\* The parts of the state the scheduler's actions leave alone.
auxVars == <<build, outcome, fsys, runner, logger, tui>>

wsVars == <<pkgNames, manifest, cmd, only>>

(* --------------------------- commands --------------------------------- *)

\* Capabilities of a Command: parallel?(), run?(pkg), runWorkspace?(ws).
InitCommand ==
  [name |-> "init", hasRun |-> TRUE, hasWs |-> TRUE, parallel |-> TRUE]

\* Mutant: the build never reports itself parallel.
BuildParallel_Never(watch) == FALSE

\* parallel(): return this.flags.watch || false
BuildParallel(watch) == watch

BuildCommand(watch) ==
  [name |-> "build", hasRun |-> TRUE, hasWs |-> FALSE,
   parallel |-> BuildParallel(watch), watch |-> watch]

FmtCommand ==
  [name |-> "fmt", hasRun |-> TRUE, hasWs |-> FALSE, parallel |-> TRUE]

TestCommand ==
  [name |-> "test", hasRun |-> TRUE, hasWs |-> FALSE, parallel |-> FALSE]

CleanCommand ==
  [name |-> "clean", hasRun |-> TRUE, hasWs |-> TRUE, parallel |-> TRUE]

\* The commands registered through register().
Commands ==
  {InitCommand, BuildCommand(FALSE), BuildCommand(TRUE), FmtCommand,
   TestCommand, CleanCommand}

(* ------------------------ dependency graph ---------------------------- *)

Keys == SelectSeq(KeyOrder, LAMBDA n : n \in pkgNames)

\* Mutant: peerDependencies are not read.
DirectDeps_NoPeer(p) ==
  (manifest[p].dependencies \cup manifest[p].devDependencies) \cap pkgNames

\* allVersionedDeps.map(keys).flat().filter(name => rootSet.has(name))
DirectDeps(p) ==
  (manifest[p].dependencies \cup manifest[p].devDependencies
     \cup manifest[p].peerDependencies) \cap pkgNames

\* Mutant: the closure loop unions nothing into depGraph[name].
UnionDeps_NoUnion(g, name) == g

\* forEach body of the closure loop for one name: deps is a snapshot of
\* depGraph[name]; every depGraph[dep] is unioned into depGraph[name].
UnionDeps(g, name) ==
  [g EXCEPT ![name] = g[name] \cup UNION {g[dep] : dep \in g[name]}]

RECURSIVE PassFrom(_, _)
PassFrom(g, i) ==
  IF i > Len(Keys) THEN g ELSE PassFrom(UnionDeps(g, Keys[i]), i + 1)

\* while (true) { changed = false; one pass; if (!changed) break; }
RECURSIVE FixPoint(_)
FixPoint(g) ==
  LET h == PassFrom(g, 1) IN IF h = g THEN g ELSE FixPoint(h)

buildDepGraph == FixPoint([p \in pkgNames |-> DirectDeps(p)])

\* depsSet grows by depGraph[p] of its members until its size is stable.
RECURSIVE ClosureFrom(_)
ClosureFrom(depsSet) ==
  LET next == depsSet \cup UNION {depGraph[p] : p \in depsSet}
  IN  IF next = depsSet THEN depsSet ELSE ClosureFrom(next)

\* Mutant: every package of the workspace, whatever the roots.
dependencyClosure_All(roots) == pkgNames

dependencyClosure(roots) == ClosureFrom(roots)

\* let rootSet = only || this.packages.map(p => p.name)
RootSet == IF only.given THEN only.names ELSE pkgNames

(* ------------------------------ Init ---------------------------------- *)

NoBuild == [phase |-> "off"]

\* A part of the program that the specification at hand does not exercise.
Off == [phase |-> "off"]

\* The value a task returns agrees with the outcome fixed for its package.
Returns(p, success) ==
  outcome[p] = "any" \/ outcome[p] = (IF success THEN "ok" ELSE "fail")

ManifestOf(E, p) ==
  [dependencies     |-> {n \in Names : <<p, n>> \in E /\ DepKind(n) = "dependencies"},
   devDependencies  |-> {n \in Names : <<p, n>> \in E /\ DepKind(n) = "devDependencies"},
   peerDependencies |-> {n \in Names : <<p, n>> \in E /\ DepKind(n) = "peerDependencies"}]

Init ==
  /\ pkgNames \in SUBSET Names
  /\ \E E \in SUBSET (pkgNames \X Names) :
       /\ Cardinality(E) <= MaxDeps
       /\ manifest = [p \in pkgNames |-> ManifestOf(E, p)]
  /\ depGraph = << >>
  /\ cmd \in Commands
  /\ only \in [given : {FALSE}, names : {{}}]
              \cup [given : {TRUE}, names : (SUBSET Names) \ {{}}]
  /\ pc = "load"
  /\ status = << >>
  /\ result = [p \in Names |-> "none"]
  /\ promise = "none"
  /\ pkgSuccess = "none"
  /\ wsCalls = 0
  /\ wsResult = "none"
  /\ wsOverlap = FALSE
  /\ exitCode = "none"
  /\ build = NoBuild
  /\ outcome = [p \in Names |-> "any"]
  /\ fsys = Off
  /\ runner = Off
  /\ logger = Off
  /\ tui = Off

(* --------------------------- Workspace -------------------------------- *)

\* new Workspace(root, packages, monorepo): pkgMap, then buildDepGraph().
WorkspaceLoad ==
  /\ pc = "load"
  /\ depGraph' = buildDepGraph
  /\ pc' = "run"
  /\ UNCHANGED <<wsVars, status, result, promise, pkgSuccess, wsCalls,
                 wsResult, wsOverlap, exitCode, auxVars>>

\* Mutant: every queued package, without looking at its dependencies.
canExecute_NoDeps(st) == {p \in DOMAIN st : st[p] = "queued"}

\* canExecute(): queued packages whose depGraph entry is all finished.
canExecute(st) ==
  {p \in DOMAIN st :
     st[p] = "queued" /\ \A name \in depGraph[p] : st[name] = "finished"}

\* Mutant: an executable package is marked finished without running.
StartOf_Skip(st) == [p \in DOMAIN st |-> IF p \in canExecute(st) THEN "finished" ELSE st[p]]

\* runTasks(): every package of canExecute() is set running and cmd.run(pkg)
\* is called; the calls return pending promises.
StartOf(st) == [p \in DOMAIN st |-> IF p \in canExecute(st) THEN "running" ELSE st[p]]

Invoke(res, ps) == [p \in Names |-> IF p \in ps THEN "pending" ELSE res[p]]

\* Workspace.run calls runPackages (cmd.run is defined by every command).
\* dependencyClosure reads depGraph[p].forEach: for a name that is no key of
\* depGraph this is a TypeError, which rejects the action's promise.
RunPackagesEnter ==
  /\ pc = "run"
  /\ cmd.hasRun
  /\ IF ~(RootSet \subseteq pkgNames)
     THEN /\ pc' = "threw"
          /\ UNCHANGED <<status, result, promise>>
     ELSE LET pkgs == dependencyClosure(RootSet) IN
          IF cmd.parallel
          THEN /\ result' = Invoke(result, pkgs)
               /\ pc' = "awaitAll"
               /\ UNCHANGED <<status, promise>>
          ELSE LET st == [p \in pkgs |-> "queued"] IN
               /\ status' = StartOf(st)
               /\ result' = Invoke(result, canExecute(st))
               /\ promise' = "pending"
               /\ pc' = "awaitWave"
  /\ UNCHANGED <<wsVars, depGraph, pkgSuccess, wsCalls, wsResult, wsOverlap,
                 exitCode, auxVars>>

\* Parallel mode: one cmd.run(pkg) promise settles.
ParallelTaskDone(p, success) ==
  /\ pc # "exited"
  /\ cmd.parallel
  /\ result[p] = "pending"
  /\ Returns(p, success)
  /\ result' = [result EXCEPT ![p] = IF success THEN "ok" ELSE "fail"]
  /\ UNCHANGED <<wsVars, depGraph, pc, status, promise, pkgSuccess, wsCalls,
                 wsResult, wsOverlap, exitCode, auxVars>>

\* await Promise.all(...); return results.every(x => x)
ParallelReturn ==
  /\ pc = "awaitAll"
  /\ \A p \in Names : result[p] # "pending"
  /\ pkgSuccess' = IF \A p \in Names : result[p] # "fail" THEN "ok" ELSE "fail"
  /\ pc' = "afterPackages"
  /\ UNCHANGED <<wsVars, depGraph, status, result, promise, wsCalls,
                 wsResult, wsOverlap, exitCode, auxVars>>

\* Mutant: a failing task does not reject the promise.
Reject_Ignored(pr, success) == pr

\* if (!success) reject(): settles the promise unless it is settled already.
Reject(pr, success) == IF ~success /\ pr = "pending" THEN "rejected" ELSE pr

\* resolve() when every status is finished.
Resolve(pr, st) ==
  IF (\A k \in DOMAIN st : st[k] = "finished") /\ pr = "pending"
  THEN "resolved" ELSE pr

\* Wave mode: the continuation of `await cmd.run(pkg)` for one package.
WaveTaskDone(p, success) ==
  /\ pc # "exited"
  /\ ~cmd.parallel
  /\ p \in DOMAIN status
  /\ status[p] = "running"
  /\ Returns(p, success)
  /\ LET st == [status EXCEPT ![p] = "finished"]
         allDone == \A k \in DOMAIN st : st[k] = "finished"
     IN  /\ promise' = Resolve(Reject(promise, success), st)
         /\ status' = IF allDone THEN st ELSE StartOf(st)
         /\ result' = [q \in Names |->
                         IF q = p THEN (IF success THEN "ok" ELSE "fail")
                         ELSE IF ~allDone /\ q \in canExecute(st) THEN "pending"
                         ELSE result[q]]
  /\ UNCHANGED <<wsVars, depGraph, pc, pkgSuccess, wsCalls, wsResult,
                 wsOverlap, exitCode, auxVars>>

\* try { await promise; return true } catch (e) { return false }
WaveReturn ==
  /\ pc = "awaitWave"
  /\ promise \in {"resolved", "rejected"}
  /\ pkgSuccess' = IF promise = "resolved" THEN "ok" ELSE "fail"
  /\ pc' = "afterPackages"
  /\ UNCHANGED <<wsVars, depGraph, status, result, promise, wsCalls,
                 wsResult, wsOverlap, exitCode, auxVars>>

\* if (cmd.runWorkspace) success = (await cmd.runWorkspace(this)) && success
RunWorkspaceCall ==
  /\ pc = "afterPackages"
  /\ cmd.hasWs
  /\ wsCalls' = wsCalls + 1
  /\ wsResult' = "pending"
  /\ wsOverlap' = (wsOverlap \/ \E p \in Names : result[p] = "pending")
  /\ pc' = "awaitWs"
  /\ UNCHANGED <<wsVars, depGraph, status, result, promise, pkgSuccess,
                 exitCode, auxVars>>

RunWorkspaceDone(success) ==
  /\ pc = "awaitWs"
  /\ wsResult' = IF success THEN "ok" ELSE "fail"
  /\ pc' = "exit"
  /\ UNCHANGED <<wsVars, depGraph, status, result, promise, pkgSuccess,
                 wsCalls, wsOverlap, exitCode, auxVars>>

RunWorkspaceSkip ==
  /\ pc = "afterPackages"
  /\ ~cmd.hasWs
  /\ pc' = "exit"
  /\ UNCHANGED <<wsVars, depGraph, status, result, promise, pkgSuccess,
                 wsCalls, wsResult, wsOverlap, exitCode, auxVars>>

\* The value Workspace.run returns.
RunSuccess == pkgSuccess # "fail" /\ wsResult # "fail"

ExitCodeOf(success) == IF success THEN 0 ELSE 1

\* process.exit(success ? 0 : 1)
ProcessExit ==
  /\ pc = "exit"
  /\ exitCode' = ExitCodeOf(RunSuccess)
  /\ pc' = "exited"
  /\ UNCHANGED <<wsVars, depGraph, status, result, promise, pkgSuccess,
                 wsCalls, wsResult, wsOverlap, auxVars>>

\* The action's promise was rejected: parseAsync(...).catch logs the error
\* and calls no process.exit, so the process ends with status 0.
CaughtExit ==
  /\ pc = "threw"
  /\ exitCode' = 0
  /\ pc' = "exited"
  /\ UNCHANGED <<wsVars, depGraph, status, result, promise, pkgSuccess,
                 wsCalls, wsResult, wsOverlap, auxVars>>

\* The wave promise is pending and no task is running: nothing will ever
\* settle it, process.exit is never reached and the process ends when its
\* event loop is empty, with status 0.
Starved ==
  /\ pc = "awaitWave"
  /\ promise = "pending"
  /\ \A p \in DOMAIN status : status[p] # "running"

StarvedExit ==
  /\ Starved
  /\ exitCode' = 0
  /\ pc' = "exited"
  /\ UNCHANGED <<wsVars, depGraph, status, result, promise, pkgSuccess,
                 wsCalls, wsResult, wsOverlap, auxVars>>

\* Everything register() does after Workspace.load has returned.
NextRun ==
  \/ RunPackagesEnter
  \/ \E p \in Names, success \in BOOLEAN : ParallelTaskDone(p, success)
  \/ ParallelReturn
  \/ \E p \in Names, success \in BOOLEAN : WaveTaskDone(p, success)
  \/ WaveReturn
  \/ RunWorkspaceCall
  \/ \E success \in BOOLEAN : RunWorkspaceDone(success)
  \/ RunWorkspaceSkip
  \/ ProcessExit
  \/ CaughtExit
  \/ StarvedExit

Next ==
  \/ WorkspaceLoad
  \/ NextRun

Spec == Init /\ [][Next]_vars

(* ----------------- scheduler with task outcomes fixed ----------------- *)

\* The scheduler run with the outcome of every package's task fixed before
\* the run: the runs of one initial state differ only in their interleaving.
InitDet ==
  /\ pkgNames \in SUBSET Names
  /\ \E E \in SUBSET (pkgNames \X Names) :
       /\ Cardinality(E) <= MaxDeps
       /\ manifest = [p \in pkgNames |-> ManifestOf(E, p)]
  /\ depGraph = << >>
  /\ cmd \in {InitCommand, BuildCommand(FALSE), BuildCommand(TRUE)}
  /\ only \in [given : {FALSE}, names : {{}}]
              \cup [given : {TRUE}, names : (SUBSET Names) \ {{}}]
  /\ pc = "load"
  /\ status = << >>
  /\ result = [p \in Names |-> "none"]
  /\ promise = "none"
  /\ pkgSuccess = "none"
  /\ wsCalls = 0
  /\ wsResult = "none"
  /\ wsOverlap = FALSE
  /\ exitCode = "none"
  /\ build = NoBuild
  /\ outcome \in [Names -> {"ok", "fail"}]
  /\ \A p \in Names \ pkgNames : outcome[p] = "ok"
  /\ fsys = Off
  /\ runner = Off
  /\ logger = Off
  /\ tui = Off

DetSpec == InitDet /\ [][Next]_vars

(* ------------------------ tasks that may throw ------------------------ *)

\* Most dependency edges of a workspace whose tasks may throw.
MaxThrowDeps == 1

\* The scheduler with the outcome of every task fixed, a throw (the promise
\* of cmd.run rejecting) being one of the outcomes.
InitThrow ==
  /\ pkgNames \in SUBSET Names
  /\ \E E \in SUBSET (pkgNames \X Names) :
       /\ Cardinality(E) <= MaxThrowDeps
       /\ manifest = [p \in pkgNames |-> ManifestOf(E, p)]
  /\ depGraph = << >>
  /\ cmd \in {InitCommand, BuildCommand(FALSE)}
  /\ only \in [given : {FALSE}, names : {{}}]
              \cup [given : {TRUE}, names : (SUBSET Names) \ {{}}]
  /\ pc = "load"
  /\ status = << >>
  /\ result = [p \in Names |-> "none"]
  /\ promise = "none"
  /\ pkgSuccess = "none"
  /\ wsCalls = 0
  /\ wsResult = "none"
  /\ wsOverlap = FALSE
  /\ exitCode = "none"
  /\ build = NoBuild
  /\ outcome \in [Names -> {"ok", "fail", "throw"}]
  /\ \A p \in Names \ pkgNames : outcome[p] = "ok"
  /\ fsys = Off
  /\ runner = Off
  /\ logger = Off
  /\ tui = Off

\* Parallel mode: one cmd.run(pkg) promise rejects, so Promise.all rejects,
\* runPackages and ws.run throw and the action's promise is rejected.
ParallelTaskThrows(p) ==
  /\ pc = "awaitAll"
  /\ cmd.parallel
  /\ result[p] = "pending"
  /\ outcome[p] = "throw"
  /\ result' = [result EXCEPT ![p] = "threw"]
  /\ pc' = "threw"
  /\ UNCHANGED <<wsVars, depGraph, status, promise, pkgSuccess, wsCalls,
                 wsResult, wsOverlap, exitCode, auxVars>>

\* Wave mode: `await cmd.run(pkg)` throws inside the async forEach callback.
\* The rest of the callback is skipped: no reject(), status stays "running",
\* no resolve() and no runTasks(). Nothing awaits the callback's promise.
WaveTaskThrows(p) ==
  /\ pc \notin {"exited", "crashed"}
  /\ ~cmd.parallel
  /\ p \in DOMAIN status
  /\ status[p] = "running"
  /\ result[p] = "pending"
  /\ outcome[p] = "throw"
  /\ result' = [result EXCEPT ![p] = "threw"]
  /\ UNCHANGED <<wsVars, depGraph, pc, status, promise, pkgSuccess, wsCalls,
                 wsResult, wsOverlap, exitCode, auxVars>>

\* The callback's rejected promise has no handler. A runtime whose
\* unhandled-rejection mode is throw ends the process with status 1 and the
\* error printed by the runtime, past the catch of parseAsync.
UnhandledRejection ==
  /\ pc \notin {"exited", "crashed"}
  /\ ~cmd.parallel
  /\ \E p \in Names : result[p] = "threw"
  /\ exitCode' = 1
  /\ pc' = "crashed"
  /\ UNCHANGED <<wsVars, depGraph, status, result, promise, pkgSuccess,
                 wsCalls, wsResult, wsOverlap, auxVars>>

\* A runtime that only warns goes on: when nothing is left to run but the
\* packages whose task threw, the promise stays pending and the process ends
\* with status 0 when its event loop is empty.
ThrownExit ==
  /\ pc = "awaitWave"
  /\ promise = "pending"
  /\ \E p \in DOMAIN status : result[p] = "threw"
  /\ \A p \in DOMAIN status : status[p] = "running" => result[p] = "threw"
  /\ exitCode' = 0
  /\ pc' = "exited"
  /\ UNCHANGED <<wsVars, depGraph, status, result, promise, pkgSuccess,
                 wsCalls, wsResult, wsOverlap, auxVars>>

NextThrow ==
  \/ Next
  \/ \E p \in Names : ParallelTaskThrows(p)
  \/ \E p \in Names : WaveTaskThrows(p)
  \/ UnhandledRejection
  \/ ThrownExit

ThrowSpec == InitThrow /\ [][NextThrow]_vars

(* ------------------- Workspace.load on a file system ------------------ *)

\* Direct dependency edges of the workspaces loaded from a file system.
MaxLoadDeps == 1

\* What Workspace.load finds: whether a workspace root is found, the package
\* directories whose package.json cannot be read, and those with no entry
\* file under src.
InitLoad ==
  /\ pkgNames \in SUBSET Names
  /\ \E E \in SUBSET (pkgNames \X Names) :
       /\ Cardinality(E) <= MaxLoadDeps
       /\ manifest = [p \in pkgNames |-> ManifestOf(E, p)]
  /\ depGraph = << >>
  /\ cmd \in {InitCommand, BuildCommand(FALSE)}
  /\ only \in [given : {FALSE}, names : {{}}]
              \cup [given : {TRUE}, names : {{"foo"}, {"bar", "foo"}}]
  /\ pc = "load"
  /\ status = << >>
  /\ result = [p \in Names |-> "none"]
  /\ promise = "none"
  /\ pkgSuccess = "none"
  /\ wsCalls = 0
  /\ wsResult = "none"
  /\ wsOverlap = FALSE
  /\ exitCode = "none"
  /\ build = NoBuild
  /\ outcome = [p \in Names |-> "any"]
  /\ \E r \in BOOLEAN, u \in SUBSET pkgNames, n \in SUBSET pkgNames :
       fsys = [phase |-> "load", root |-> r, unreadable |-> u, noEntry |-> n]
  /\ runner = Off
  /\ logger = Off
  /\ tui = Off

\* Workspace.load throws: no root ("Could not find workspace"), Package.load
\* on an unreadable manifest, or the Package constructor finding no entry
\* file. Promise.all rejects if any Package.load does.
LoadThrows(f) == ~f.root \/ f.unreadable # {} \/ f.noEntry # {}

\* ws = await Workspace.load() in register(): a throw rejects the action's
\* promise, which parseAsync(...).catch receives.
WorkspaceLoadFs ==
  /\ pc = "load"
  /\ fsys.phase = "load"
  /\ IF LoadThrows(fsys)
     THEN pc' = "threw" /\ UNCHANGED depGraph
     ELSE pc' = "run" /\ depGraph' = buildDepGraph
  /\ UNCHANGED <<wsVars, status, result, promise, pkgSuccess, wsCalls,
                 wsResult, wsOverlap, exitCode, auxVars>>

NextLoad ==
  \/ WorkspaceLoadFs
  \/ NextRun

LoadSpec == InitLoad /\ [][NextLoad]_vars

(* ------------------------ BuildCommand.run ---------------------------- *)

\* Exit codes a child process can end with.
ExitCodes == {0, 1}

\* Mutant: spawn reports success whatever the exit code.
SpawnResult_Always(code) == "ok"

\* spawn(): return exitCode == 0
SpawnResult(code) == IF code = 0 THEN "ok" ELSE "fail"

\* Mutant: lint reports the exit status of the linter.
LintResult_ExitStatus(code) == IF code = 0 THEN "ok" ELSE "fail"

\* lint(): await pkg.spawn(...); return true
LintResult(code) == "ok"

\* buildScript(): spawns node build.mjs if the file exists, else returns true.
ScriptStart(hasScript) == IF hasScript THEN "running" ELSE "ok"

\* serve(): a server is created for a browser bin package under watch.
ServeListens(b) == b.platform = "browser" /\ b.target = "bin" /\ b.watch

\* results.every(x => x)
BuildResult(b) ==
  IF \A k \in {"check", "compile", "lint", "script", "serve"} : b[k] = "ok"
  THEN "ok" ELSE "fail"

PlatformTargets ==
  {<<"node", "lib">>, <<"node", "bin">>, <<"browser", "bin">>}

InitBuild ==
  /\ pkgNames = {"foo"}
  /\ manifest = [p \in {"foo"} |-> ManifestOf({}, p)]
  /\ depGraph = [p \in {"foo"} |-> {}]
  /\ cmd \in {BuildCommand(FALSE), BuildCommand(TRUE)}
  /\ only = [given |-> FALSE, names |-> {}]
  /\ pc = "task"
  /\ status = << >>
  /\ result = [p \in Names |-> "none"]
  /\ promise = "none"
  /\ pkgSuccess = "none"
  /\ wsCalls = 0
  /\ wsResult = "none"
  /\ wsOverlap = FALSE
  /\ exitCode = "none"
  /\ outcome = [p \in Names |-> "any"]
  /\ fsys = Off
  /\ runner = Off
  /\ logger = Off
  /\ tui = Off
  /\ \E pt \in PlatformTargets, hasScript \in BOOLEAN :
       build = [phase |-> "start", watch |-> cmd.watch,
                platform |-> pt[1], target |-> pt[2], hasScript |-> hasScript,
                check |-> "idle", compile |-> "idle", lint |-> "idle",
                script |-> "idle", serve |-> "idle",
                checkExit |-> << >>, lintExit |-> << >>, scriptExit |-> << >>,
                server |-> FALSE, result |-> "none"]

schedVars == <<pkgNames, manifest, depGraph, cmd, only, pc, status, result,
               promise, pkgSuccess, wsCalls, wsResult, wsOverlap, exitCode>>

buildFrame == <<schedVars, outcome, fsys, runner, logger, tui>>

\* run(pkg) up to its await: mkdirp, logger.start(), and the five calls
\* inside Promise.all([...]), each running up to its own first await.
BuildRunStart ==
  /\ build.phase = "start"
  /\ build' = [build EXCEPT !.phase = "running",
                            !.check = "running",
                            !.compile = "running",
                            !.lint = "running",
                            !.script = ScriptStart(build.hasScript),
                            !.serve = "ok",
                            !.server = ServeListens(build)]
  /\ UNCHANGED buildFrame

\* check(): tsc exits.
CheckExit(code) ==
  /\ build.phase = "running" /\ build.check = "running"
  /\ build' = [build EXCEPT !.check = SpawnResult(code), !.checkExit = <<code>>]
  /\ UNCHANGED buildFrame

\* compile(): esbuild.build settles (no errors, or errors / a caught throw),
\* or vite exits.
CompileDone(success) ==
  /\ build.phase = "running" /\ build.compile = "running"
  /\ build' = [build EXCEPT !.compile = IF success THEN "ok" ELSE "fail"]
  /\ UNCHANGED buildFrame

\* lint(): eslint (or watch) exits.
LintExit(code) ==
  /\ build.phase = "running" /\ build.lint = "running"
  /\ build' = [build EXCEPT !.lint = LintResult(code), !.lintExit = <<code>>]
  /\ UNCHANGED buildFrame

\* buildScript(): node build.mjs exits.
ScriptExit(code) ==
  /\ build.phase = "running" /\ build.script = "running"
  /\ build' = [build EXCEPT !.script = SpawnResult(code), !.scriptExit = <<code>>]
  /\ UNCHANGED buildFrame

\* Promise.all settles: logger.end(); return results.every(x => x)
BuildRunReturn ==
  /\ build.phase = "running"
  /\ \A k \in {"check", "compile", "lint", "script", "serve"} :
       build[k] \in {"ok", "fail"}
  /\ build' = [build EXCEPT !.phase = "done", !.result = BuildResult(build)]
  /\ UNCHANGED buildFrame

NextBuild ==
  \/ BuildRunStart
  \/ \E code \in ExitCodes : CheckExit(code)
  \/ \E success \in BOOLEAN : CompileDone(success)
  \/ \E code \in ExitCodes : LintExit(code)
  \/ \E code \in ExitCodes : ScriptExit(code)
  \/ BuildRunReturn

BuildSpec == InitBuild /\ [][NextBuild]_vars

(* --------------------- process runner and signals --------------------- *)

\* Children the orchestrator spawns in one run.
MaxChildren == 3

Children == 1..MaxChildren

Signals == {"SIGINT", "SIGTERM"}

\* The scheduler parked: the state below is about one component only.
Parked ==
  /\ pc = "task"
  /\ status = << >>
  /\ result = [p \in Names |-> "none"]
  /\ promise = "none"
  /\ pkgSuccess = "none"
  /\ wsCalls = 0
  /\ wsResult = "none"
  /\ wsOverlap = FALSE
  /\ exitCode = "none"
  /\ outcome = [p \in Names |-> "any"]

\* No workspace is involved.
NoWorkspace ==
  /\ pkgNames = {}
  /\ manifest = << >>
  /\ depGraph = << >>
  /\ cmd = FmtCommand
  /\ only = [given |-> FALSE, names |-> {}]

\* A process with no handler for a signal is terminated by it; the status a
\* shell reports is 128 + the signal's number.
SignalStatus(sig) == IF sig = "SIGINT" THEN 130 ELSE 143

InitRunner ==
  /\ Parked
  /\ NoWorkspace
  /\ build = NoBuild
  /\ fsys = Off
  /\ logger = Off
  /\ tui = Off
  /\ \E w \in BOOLEAN :
       runner = [phase |-> "on", watch |-> w,
                 child |-> [c \in Children |-> "none"],
                 handlers |-> {}, killed |-> {},
                 signalled |-> FALSE, cancel |-> FALSE,
                 alive |-> TRUE, exit |-> << >>]

runnerFrame == <<schedVars, build, outcome, fsys, logger, tui>>

Running(r) == {c \in Children : r.child[c] = "running"}

\* spawn(): pty.spawn either throws (logged, return false) or yields a child,
\* for which a SIGINT and a SIGTERM handler calling p.kill() are registered.
Spawn(c, ok) ==
  /\ runner.phase = "on" /\ runner.alive
  /\ runner.child[c] = "none"
  /\ \A d \in 1..(c - 1) : runner.child[d] # "none"
  /\ runner' = IF ok
               THEN [runner EXCEPT !.child[c] = "running",
                                   !.handlers = @ \cup {c}]
               ELSE [runner EXCEPT !.child[c] = "failed"]
  /\ UNCHANGED runnerFrame

\* The registered handlers run: each calls kill() on its own child; a child
\* that has exited is unaffected.
KilledBy(r) == r.handlers \cap Running(r)

\* A signal arrives. With no handler registered the default disposition ends
\* the process; with handlers registered the handlers run and nothing else
\* happens: the orchestrator goes on.
Signal(sig) ==
  /\ runner.phase = "on" /\ runner.alive
  /\ runner' = IF runner.handlers = {}
               THEN [runner EXCEPT !.signalled = TRUE,
                                   !.cancel = @ \/ sig = "SIGINT",
                                   !.alive = FALSE,
                                   !.exit = <<SignalStatus(sig)>>]
               ELSE [runner EXCEPT !.signalled = TRUE,
                                   !.cancel = @ \/ (sig = "SIGINT" /\ ~runner.watch),
                                   !.killed = @ \cup KilledBy(runner)]
  /\ UNCHANGED runnerFrame

\* p.onExit: the child ends, by itself or because it was killed; spawn returns
\* exitCode == 0.
ChildExit(c, code) ==
  /\ runner.phase = "on" /\ runner.alive
  /\ runner.child[c] = "running"
  /\ runner' = [runner EXCEPT !.child[c] = SpawnResult(code)]
  /\ UNCHANGED runnerFrame

\* screen.key(["escape", "q", "C-c"]): process.exit(0).
KeyQuit ==
  /\ runner.phase = "on" /\ runner.alive /\ runner.watch
  /\ runner' = [runner EXCEPT !.cancel = TRUE, !.alive = FALSE, !.exit = <<0>>]
  /\ UNCHANGED runnerFrame

\* register(): process.exit(success ? 0 : 1) once ws.run has returned, which
\* is when every task has returned or, in wave mode, when one has failed.
Finish(code) ==
  /\ runner.phase = "on" /\ runner.alive
  /\ \/ Running(runner) = {}
     \/ /\ code = 1 /\ ~runner.watch
        /\ \E c \in Children : runner.child[c] \in {"fail", "failed"}
  /\ runner' = [runner EXCEPT !.alive = FALSE, !.exit = <<code>>]
  /\ UNCHANGED runnerFrame

NextRunner ==
  \/ \E c \in Children, ok \in BOOLEAN : Spawn(c, ok)
  \/ \E sig \in Signals : Signal(sig)
  \/ \E c \in Children, code \in ExitCodes : ChildExit(c, code)
  \/ KeyQuit
  \/ \E code \in ExitCodes : Finish(code)

RunnerSpec == InitRunner /\ [][NextRunner]_vars

(* ------------------------ Package construction ----------------------- *)

\* Mutant: the extensions tried in the opposite order.
Exts_JsFirst == <<"js", "ts", "tsx">>

\* findJs: let exts = ["tsx", "ts", "js"]
Exts == <<"tsx", "ts", "js">>

\* The basenames the constructor tries, in the order of its if-else chain.
Basenames == <<"lib", "main", "index">>

\* A file <dir>/src/<basename>.<ext> is the pair <<basename, ext>>.
Range(seq) == {seq[i] : i \in DOMAIN seq}

Candidates == Range(Basenames) \X Range(Exts)

\* Files under src that are no candidate.
OtherFiles == {<<"lib", "mjs">>, <<"app", "ts">>}

\* exts.map(e => path.join(dir, "src", `${basename}.${e}`)).find(fs.existsSync):
\* the first existing path in the order of exts, or undefined.
findJs(files, basename) ==
  LET paths == [i \in DOMAIN Exts |-> <<basename, Exts[i]>>]
      found == SelectSeq(paths, LAMBDA f : f \in files)
  IN  IF found = << >> THEN << >> ELSE <<Head(found)>>

Threw == [ok |-> FALSE, platform |-> "none", target |-> "none",
          entryPoint |-> << >>]

\* The Package constructor's chain: lib, then main, then index, else throw.
Package(files) ==
  IF findJs(files, "lib") # << >>
  THEN [ok |-> TRUE, platform |-> "node", target |-> "lib",
        entryPoint |-> findJs(files, "lib")]
  ELSE IF findJs(files, "main") # << >>
  THEN [ok |-> TRUE, platform |-> "node", target |-> "bin",
        entryPoint |-> findJs(files, "main")]
  ELSE IF findJs(files, "index") # << >>
  THEN [ok |-> TRUE, platform |-> "browser", target |-> "bin",
        entryPoint |-> findJs(files, "index")]
  ELSE Threw

InitPackage ==
  /\ Parked
  /\ NoWorkspace
  /\ build = NoBuild
  /\ runner = Off
  /\ logger = Off
  /\ tui = Off
  /\ \E files \in SUBSET (Candidates \cup OtherFiles) :
       fsys = [phase |-> "pkg", files |-> files, made |-> << >>]

\* new Package(dir, manifest)
PackageConstruct ==
  /\ fsys.phase = "pkg"
  /\ fsys.made = << >>
  /\ fsys' = [fsys EXCEPT !.made = <<Package(fsys.files)>>]
  /\ UNCHANGED <<schedVars, build, outcome, runner, logger, tui>>

NextPackage == PackageConstruct

PackageSpec == InitPackage /\ [][NextPackage]_vars

(* ----------------------- workspace-root discovery --------------------- *)

\* Depth of the directories below the repository root.
MaxDepth == 2

\* Directory names; a directory is the sequence of names leading to it from
\* the repository root, which is << >>.
DirNames == {"a", "b"}

RECURSIVE DirsOfDepth(_)
DirsOfDepth(n) ==
  IF n = 0 THEN {<< >>}
  ELSE {Append(d, c) : d \in DirsOfDepth(n - 1), c \in DirNames}

Dirs == UNION {DirsOfDepth(n) : n \in 0..MaxDepth}

\* path.relative(gitRoot, path.resolve(".")).split(path.sep): the relative
\* path of the root itself is "", whose split is [""].
Components(cwd) == IF cwd = << >> THEN <<"">> ELSE cwd

\* components.slice(i), i counted from 0
Slice(components, i) == SubSeq(components, i + 1, Len(components))

\* path.join(gitRoot, ...parts): empty segments are dropped.
Join(parts) == SelectSeq(parts, LAMBDA c : c # "")

\* findWorkspaceRoot: the first i in range(components.length) for which
\* gitRoot/components.slice(i)/package.json exists; << >> is undefined.
findWorkspaceRoot(cwd, manifests) ==
  LET components == Components(cwd)
      hits == {i \in 0..(Len(components) - 1) :
                 Join(Slice(components, i)) \in manifests}
  IN  IF hits = {} THEN << >>
      ELSE LET i == CHOOSE h \in hits : \A k \in hits : h <= k
           IN  <<Join(Slice(components, i))>>

InitRoot ==
  /\ Parked
  /\ NoWorkspace
  /\ build = NoBuild
  /\ runner = Off
  /\ logger = Off
  /\ tui = Off
  /\ \E cwd \in Dirs, manifests \in SUBSET Dirs :
       fsys = [phase |-> "root", cwd |-> cwd, manifests |-> manifests,
               done |-> FALSE, root |-> << >>]

\* root = findWorkspaceRoot(gitRoot) in Workspace.load
FindRoot ==
  /\ fsys.phase = "root"
  /\ ~fsys.done
  /\ fsys' = [fsys EXCEPT !.done = TRUE,
                          !.root = findWorkspaceRoot(fsys.cwd, fsys.manifests)]
  /\ UNCHANGED <<schedVars, build, outcome, runner, logger, tui>>

NextRoot == FindRoot

RootSpec == InitRoot /\ [][NextRoot]_vars

(* ----------------------------- OnceLogger ---------------------------- *)

\* log() calls in one run.
MaxLogs == 3

\* PROCESSES: the panes, in the order of the array.
PROCESSES == <<"build", "check", "lint", "script">>

Panes == Range(PROCESSES)

\* A pane name no entry exists for (commented out in PROCESSES).
UnknownPanes == {"graco"}

\* Packages whose processes log, and the fragments they log.
Producers == {"bar", "foo"}

Fragments == {"x", "y"}

\* constructor: this.logs = PROCESSES.map(([name]) => ({ name, logs: [] }))
InitLogger ==
  /\ Parked
  /\ NoWorkspace
  /\ build = NoBuild
  /\ fsys = Off
  /\ runner = Off
  /\ tui = Off
  /\ logger = [phase |-> "once",
               logs |-> [n \in Panes |-> << >>],
               calls |-> << >>,
               threw |-> FALSE,
               ended |-> FALSE, endedAt |-> 0, stdout |-> << >>]

loggerFrame == <<schedVars, build, outcome, fsys, runner, tui>>

\* Mutant: a fragment is put in front of the pane's fragments.
Push_Front(logs, data) == <<data>> \o logs

\* entry.logs.push(data)
Push(logs, data) == Append(logs, data)

\* log(_process, name, data): the entry of pane `name` gets the fragment; a
\* name without entry throws. calls records the calls that returned.
Log(pkg, name, data) ==
  /\ logger.phase = "once"
  /\ Len(logger.calls) < MaxLogs
  /\ logger' =
       IF name \in Panes
       THEN [logger EXCEPT
               !.logs[name] = Push(@, data),
               !.calls = Append(@, [pkg |-> pkg, name |-> name, data |-> data])]
       ELSE [logger EXCEPT !.threw = TRUE]
  /\ UNCHANGED loggerFrame

\* What end() writes for the entries from the i-th on: the pane's name, its
\* fragments one per line, and the rule of dots.
RECURSIVE PrintFrom(_, _)
PrintFrom(logs, i) ==
  IF i > Len(PROCESSES) THEN << >>
  ELSE <<[line |-> "name", text |-> PROCESSES[i]]>>
       \o [k \in DOMAIN logs[PROCESSES[i]] |->
             [line |-> "log", text |-> logs[PROCESSES[i]][k]]]
       \o <<[line |-> "rule", text |-> "."]>>
       \o PrintFrom(logs, i + 1)

\* end(): called when a package's run is over; stdout holds what the last
\* call wrote.
End ==
  /\ logger.phase = "once"
  /\ logger' = [logger EXCEPT !.ended = TRUE,
                              !.endedAt = Len(logger.calls),
                              !.stdout = PrintFrom(logger.logs, 1)]
  /\ UNCHANGED loggerFrame

NextLogger ==
  \/ \E pkg \in Producers, name \in Panes \cup UnknownPanes,
        data \in Fragments : Log(pkg, name, data)
  \/ End

LoggerSpec == InitLogger /\ [][NextLogger]_vars

(* ----------------------------- WatchLogger --------------------------- *)

\* The orders a set of names can come in.
Orders(S) ==
  {seq \in [1..Cardinality(S) -> S] :
     \A i, j \in 1..Cardinality(S) : seq[i] = seq[j] => i = j}

\* `graco build -w [-p names]` on a loaded workspace, before the command is
\* constructed. roots is rootSet as an array: the -p names in the order
\* given, or the workspace's packages in the order they were read.
InitTui ==
  /\ Parked
  /\ pkgNames \in SUBSET Names
  /\ \E E \in SUBSET (pkgNames \X Names) :
       /\ Cardinality(E) <= MaxDeps
       /\ manifest = [p \in pkgNames |-> ManifestOf(E, p)]
  /\ depGraph = buildDepGraph
  /\ cmd = BuildCommand(TRUE)
  /\ only \in [given : {FALSE}, names : {{}}]
              \cup [given : {TRUE}, names : (SUBSET Names) \ {{}}]
  /\ build = NoBuild
  /\ fsys = Off
  /\ runner = Off
  /\ logger = Off
  /\ \E roots \in Orders(RootSet) :
       tui = [phase |-> "new", roots |-> roots]

tuiFrame == <<schedVars, build, outcome, fsys, runner, logger>>

\* Mutant: only a single root is shown by default.
defaultShow_SingleRootOnly(roots, name, i) ==
  only.given /\ Len(roots) = 1 /\ roots[1] = name

\* (only && only.length == 1 && only[0] == pkg.name) || i == 0, with i
\* counted from 1 here.
defaultShow(roots, name, i) ==
  (only.given /\ Len(roots) = 1 /\ roots[1] = name) \/ i = 1

\* style.fg of a button at construction
InitialFg(show) == IF show THEN "green" ELSE "black"

\* new WatchLogger(ws, flags.packages). dependencyClosure returns the roots
\* in their order followed by the dependencies it added; it throws on a root
\* that is no package of the workspace. Every package gets a pane group,
\* shown or hidden, and a button.
TuiConstruct ==
  /\ tui.phase = "new"
  /\ IF RootSet \subseteq pkgNames
     THEN \E added \in Orders(dependencyClosure(RootSet) \ RootSet) :
            LET packages == tui.roots \o added
                shown == {packages[i] : i \in
                            {k \in DOMAIN packages :
                               defaultShow(tui.roots, packages[k], k)}}
            IN  tui' = [phase |-> "on", roots |-> tui.roots,
                        packages |-> packages,
                        visible |-> shown,
                        fg |-> [q \in Range(packages) |->
                                  InitialFg(q \in shown)],
                        clicked |-> << >>]
     ELSE tui' = [phase |-> "threw", roots |-> tui.roots]
  /\ UNCHANGED tuiFrame

\* Mutant: a click hides no pane group.
HideAll_None(visible) == visible

\* Object.values(this.packages).forEach(log => log.hide())
HideAll(visible) == {}

\* button.on("click"): hide every pane group, blacken every button, show
\* this package's group, make this button green.
Click(name) ==
  /\ tui.phase = "on"
  /\ name \in Range(tui.packages)
  /\ tui' = [tui EXCEPT
               !.visible = HideAll(@) \cup {name},
               !.fg = [q \in DOMAIN @ |-> IF q = name THEN "green" ELSE "black"],
               !.clicked = <<name>>]
  /\ UNCHANGED tuiFrame

NextTui ==
  \/ TuiConstruct
  \/ \E name \in Names : Click(name)

TuiSpec == InitTui /\ [][NextTui]_vars

(* ------------------------- ProcessLog (watch pane) -------------------- *)

\* log() calls on one pane, and the length of a fragment in tokens.
MaxIngest == 3

MaxFragLen == 3

\* A fragment is a sequence of tokens: plain text, the cursor-home code "[1G"
\* and the erase-line code "[2K".
CursorHome == "[1G"

EraseLine == "[2K"

Tokens == {"text", CursorHome, EraseLine}

FragmentsUpTo(n) == UNION {[1..k -> Tokens] : k \in 1..n}

\* data.includes(code)
Includes(data, code) == \E i \in DOMAIN data : data[i] = code

\* data.replace(code, ""): a string pattern replaces the first occurrence only.
ReplaceFirst(data, code) ==
  IF ~Includes(data, code) THEN data
  ELSE LET i == CHOOSE k \in DOMAIN data :
                  data[k] = code /\ \A j \in 1..(k - 1) : data[j] # code
       IN  SubSeq(data, 1, i - 1) \o SubSeq(data, i + 1, Len(data))

\* widget.deleteBottom(): the last line goes; an empty pane stays empty.
deleteBottom(lines) ==
  IF lines = << >> THEN << >> ELSE SubSeq(lines, 1, Len(lines) - 1)

InitPane ==
  /\ Parked
  /\ NoWorkspace
  /\ build = NoBuild
  /\ fsys = Off
  /\ runner = Off
  /\ tui = Off
  /\ logger = [phase |-> "watch", lines |-> << >>, calls |-> 0]

\* ProcessLog.log(data)
PaneLog(data) ==
  /\ logger.phase = "watch"
  /\ logger.calls < MaxIngest
  /\ logger' = [logger EXCEPT
                  !.calls = @ + 1,
                  !.lines = IF Includes(data, EraseLine)
                            THEN deleteBottom(@)
                            ELSE Append(@, ReplaceFirst(data, CursorHome))]
  /\ UNCHANGED loggerFrame

NextPane == \E data \in FragmentsUpTo(MaxFragLen) : PaneLog(data)

PaneSpec == InitPane /\ [][NextPane]_vars

(* --------------------------- modifyGitignore -------------------------- *)

\* Length, in tokens, of the initial .gitignore.
MaxContent == 3

\* A file content is a sequence of tokens: the newline, the text of the
\* header, and other text. A line is a maximal run without newline.
NL == "\n"

HEADER == "# Managed by Graco"

ContentTokens == {NL, HEADER, "a"}

Contents == UNION {[1..k -> ContentTokens] : k \in 0..MaxContent}

\* Names of the package-level configs, in the order of CONFIG_FILES.
PackageConfigs == <<"jest.config.cjs", "vite.config.ts", "tsconfig.json">>

\* contents.split("\n")
RECURSIVE SplitLines(_)
SplitLines(c) ==
  IF \A k \in DOMAIN c : c[k] # NL THEN <<c>>
  ELSE LET i == CHOOSE k \in DOMAIN c :
                  c[k] = NL /\ \A j \in 1..(k - 1) : c[j] # NL
       IN  <<SubSeq(c, 1, i - 1)>> \o SplitLines(SubSeq(c, i + 1, Len(c)))

\* newEntries.join("\n")
RECURSIVE JoinLines(_)
JoinLines(lines) ==
  IF lines = << >> THEN << >>
  ELSE IF Len(lines) = 1 THEN lines[1]
  ELSE lines[1] \o <<NL>> \o JoinLines(Tail(lines))

\* Mutant: the header is never found.
HeaderIndex_End(entries) == Len(entries)

\* let i = entries.indexOf(HEADER); if (i == -1) i = entries.length, as the
\* number of entries kept.
HeaderIndex(entries) ==
  IF \E k \in DOMAIN entries : entries[k] = <<HEADER>>
  THEN (CHOOSE k \in DOMAIN entries :
          entries[k] = <<HEADER>> /\ \A j \in 1..(k - 1) : entries[j] # <<HEADER>>) - 1
  ELSE Len(entries)

\* toIgnore.sort() compares the ConfigFile objects as strings, which are all
\* equal: the order of cfgs is kept. The entries are the names.
ManagedNames(managed) ==
  LET kept == SelectSeq(PackageConfigs, LAMBDA n : n \in managed)
  IN  [k \in DOMAIN kept |-> <<kept[k]>>]

\* The content modifyGitignore writes; a missing file is created empty first.
Rewrite(content, names) ==
  LET entries == SplitLines(content)
      newEntries == SubSeq(entries, 1, HeaderIndex(entries))
                      \o <<<<HEADER>>>> \o names
  IN  JoinLines(newEntries)

modifyGitignore(content, managed) == Rewrite(content, ManagedNames(managed))

InitGitignore ==
  /\ Parked
  /\ NoWorkspace
  /\ build = NoBuild
  /\ runner = Off
  /\ logger = Off
  /\ tui = Off
  /\ \E content \in Contents, exists \in BOOLEAN,
        managed \in SUBSET Range(PackageConfigs) :
       /\ ~exists => content = << >>
       /\ fsys = [phase |-> "gitignore", exists |-> exists,
                  initial |-> content, content |-> content,
                  managed |-> managed, written |-> << >>]

fsFrame == <<schedVars, build, outcome, runner, logger, tui>>

\* await modifyGitignore(cfgs, dir); written records what each call wrote.
ModifyGitignore ==
  /\ fsys.phase = "gitignore"
  /\ Len(fsys.written) < 2
  /\ LET new == modifyGitignore(fsys.content, fsys.managed)
     IN  fsys' = [fsys EXCEPT !.exists = TRUE, !.content = new,
                              !.written = Append(@, new)]
  /\ UNCHANGED fsFrame

NextGitignore == ModifyGitignore

GitignoreSpec == InitGitignore /\ [][NextGitignore]_vars

(* ------------------------------- init --------------------------------- *)

\* Files the user has put at config-file paths before the first init.
MaxUserFiles == 1

\* CONFIG_FILES, in the order of the array.
CONFIG_FILES ==
  << [name |-> "pnpm-workspace.yaml", granularity |-> "workspace",
      platform |-> "any", monorepo |-> "yes", copy |-> FALSE],
     [name |-> ".eslintrc.cjs", granularity |-> "workspace",
      platform |-> "any", monorepo |-> "any", copy |-> FALSE],
     [name |-> ".prettierrc.cjs", granularity |-> "workspace",
      platform |-> "any", monorepo |-> "any", copy |-> FALSE],
     [name |-> "jest.config.cjs", granularity |-> "workspace",
      platform |-> "any", monorepo |-> "yes", copy |-> TRUE],
     [name |-> "jest.config.cjs", granularity |-> "package",
      platform |-> "any", monorepo |-> "any", copy |-> TRUE],
     [name |-> "vite.config.ts", granularity |-> "package",
      platform |-> "browser", monorepo |-> "any", copy |-> FALSE],
     [name |-> "tsconfig.json", granularity |-> "package",
      platform |-> "any", monorepo |-> "any", copy |-> FALSE] >>

ConfigNames == {CONFIG_FILES[i].name : i \in DOMAIN CONFIG_FILES}

\* Directories of a workspace: its root and, in a monorepo, one per package.
FsDirs == {"root", "bar", "foo"}

\* What is at a config-file path: nothing, a regular file the user wrote, a
\* regular file copied from the assets, a symlink into the asset directory,
\* or a symlink the user made to somewhere else.
Kinds == {"absent", "user", "copy", "link", "userlink"}

\* configsFor(pkg)
configsForPackage(platform, hasTests) ==
  SelectSeq(CONFIG_FILES, LAMBDA cfg :
    /\ cfg.granularity = "package"
    /\ cfg.platform = "any" \/ cfg.platform = platform
    /\ ~(cfg.name = "jest.config.cjs" /\ ~hasTests))

\* configsFor(ws)
configsForWorkspace(monorepo) ==
  SelectSeq(CONFIG_FILES, LAMBDA cfg :
    /\ cfg.granularity = "workspace"
    /\ cfg.monorepo = "any" \/ monorepo)

\* Mutant: only a symlink counts as existing.
symlinkExists_LinkOnly(kind) == kind \in {"link", "userlink"}

\* symlinkExists: lstat succeeds and isFile() || isSymbolicLink()
symlinkExists(kind) == kind # "absent"

\* findManagedConfigs: realpath of the file lies in CONFIG_FILE_DIR.
IsManaged(kind) == kind = "link"

findManagedConfigs(cfgs, files, dir) ==
  SelectSeq(cfgs, LAMBDA cfg : IsManaged(files[<<dir, cfg.name>>]))

\* ensureConfig for every cfg: an existing file is left alone, otherwise the
\* asset is copied or linked.
EnsureAll(cfgs, files, dir) ==
  [k \in DOMAIN files |->
     IF k[1] = dir /\ ~symlinkExists(files[k])
        /\ \E i \in DOMAIN cfgs : cfgs[i].name = k[2]
     THEN LET cfg == cfgs[CHOOSE i \in DOMAIN cfgs : cfgs[i].name = k[2]]
          IN  IF cfg.copy THEN "copy" ELSE "link"
     ELSE files[k]]

\* modifyGitignore(cfgs, dir) on the files ensureConfig left.
IgnoreAfter(cfgs, files, dir, content) ==
  LET managed == findManagedConfigs(cfgs, files, dir)
  IN  Rewrite(content, [k \in DOMAIN managed |-> <<managed[k].name>>])

\* The directory of a package: the root in a single-package workspace.
DirOf(monorepo, p) == IF monorepo THEN p ELSE "root"

InitialIgnores == {<< >>, <<"a">>, <<"a", NL, HEADER, NL, "a">>}

InitInitFs ==
  /\ Parked
  /\ NoWorkspace
  /\ build = NoBuild
  /\ runner = Off
  /\ logger = Off
  /\ tui = Off
  /\ \E monorepo \in BOOLEAN, platform \in {"node", "browser"},
        tests \in BOOLEAN, content \in InitialIgnores,
        user \in SUBSET (FsDirs \X ConfigNames), kind \in {"user", "userlink"} :
       /\ Cardinality(user) <= MaxUserFiles
       /\ ~monorepo => \A k \in user : k[1] = "root"
       /\ fsys = [phase |-> "init", monorepo |-> monorepo,
                  pkgs |-> IF monorepo THEN {"bar", "foo"} ELSE {"foo"},
                  platform |-> [p \in {"bar", "foo"} |->
                                  IF p = "foo" THEN platform ELSE "node"],
                  tests |-> [p \in {"bar", "foo"} |-> p = "foo" /\ tests],
                  files |-> [k \in FsDirs \X ConfigNames |->
                               IF k \in user THEN kind ELSE "absent"],
                  ignore |-> [d \in FsDirs |-> content],
                  jestTypes |-> FALSE,
                  pass |-> 1, ran |-> {}, firstOk |-> FALSE,
                  snapshot |-> << >>, created |-> {}]

\* The paths ensureConfig copies or links to ("Linked: ..."): those of the
\* cfgs for which symlinkExists is false.
Created(cfgs, files, dir, pass) ==
  {<<pass, dir, cfgs[i].name>> :
     i \in {j \in DOMAIN cfgs : ~symlinkExists(files[<<dir, cfgs[j].name>>])}}

\* InitCommand.run(pkg): ensureConfigs(configsFor(pkg), pkg.dir)
InitRun(p) ==
  /\ fsys.phase = "init" /\ fsys.pass \in {1, 2}
  /\ p \in fsys.pkgs \ fsys.ran
  /\ LET dir == DirOf(fsys.monorepo, p)
         cfgs == configsForPackage(fsys.platform[p], fsys.tests[p])
         files == EnsureAll(cfgs, fsys.files, dir)
     IN  fsys' = [fsys EXCEPT
                    !.files = files,
                    !.ignore[dir] = IgnoreAfter(cfgs, files, dir, @),
                    !.created = @ \cup Created(cfgs, fsys.files, dir, fsys.pass),
                    !.ran = @ \cup {p}]
  /\ UNCHANGED fsFrame

\* InitCommand.runWorkspace(ws), called when every package's run returned:
\* the workspace configs (and the package's, outside a monorepo), pnpm
\* install, and the link to the jest types unless it exists.
InitRunWorkspace(pnpmOk) ==
  /\ fsys.phase = "init" /\ fsys.pass \in {1, 2}
  /\ fsys.ran = fsys.pkgs
  /\ LET cfgs == configsForWorkspace(fsys.monorepo)
                   \o (IF fsys.monorepo THEN << >>
                       ELSE configsForPackage(fsys.platform["foo"],
                                              fsys.tests["foo"]))
         files == EnsureAll(cfgs, fsys.files, "root")
         ignore == [fsys.ignore EXCEPT
                      !["root"] = IgnoreAfter(cfgs, files, "root", @)]
         types == fsys.jestTypes \/ pnpmOk
         made == Created(cfgs, fsys.files, "root", fsys.pass)
                   \cup (IF types # fsys.jestTypes
                         THEN {<<fsys.pass, "root", "@types/jest">>} ELSE {})
     IN  fsys' = [fsys EXCEPT
                    !.files = files,
                    !.ignore = ignore,
                    !.jestTypes = types,
                    !.created = @ \cup made,
                    !.ran = {},
                    !.firstOk = IF fsys.pass = 1 THEN pnpmOk ELSE @,
                    !.snapshot = IF fsys.pass = 1
                                 THEN <<[files |-> files, ignore |-> ignore,
                                         jestTypes |-> types]>>
                                 ELSE @,
                    !.pass = IF fsys.pass = 1 /\ ~pnpmOk THEN 3 ELSE @ + 1]
  /\ UNCHANGED fsFrame

NextInitFs ==
  \/ \E p \in {"bar", "foo"} : InitRun(p)
  \/ \E pnpmOk \in BOOLEAN : InitRunWorkspace(pnpmOk)

InitFsSpec == InitInitFs /\ [][NextInitFs]_vars

(* ------------------------------- clean -------------------------------- *)

CleanPaths == FsDirs \X ConfigNames

\* The config files a package may have, whatever its platform.
PackageConfigNames ==
  {CONFIG_FILES[i].name :
     i \in {j \in DOMAIN CONFIG_FILES : CONFIG_FILES[j].granularity = "package"}}

WorkspaceConfigNames ==
  {CONFIG_FILES[i].name :
     i \in {j \in DOMAIN CONFIG_FILES : CONFIG_FILES[j].granularity = "workspace"}}

\* CleanCommand.run: let dirs = ["dist", "node_modules"]
PackageDirs == {"dist", "node_modules"}

\* CleanCommand.runWorkspace: let dirs = ["node_modules"]
WorkspaceDirs == {"node_modules"}

\* The file system an init leaves in a workspace that had no config file.
AfterInit(monorepo, platform, tests) ==
  LET pkgs == IF monorepo THEN {"bar", "foo"} ELSE {"foo"}
      wsCfgs == configsForWorkspace(monorepo)
  IN  [k \in CleanPaths |->
         IF \/ \E p \in pkgs, i \in DOMAIN CONFIG_FILES :
                 /\ k[1] = DirOf(monorepo, p)
                 /\ CONFIG_FILES[i].name = k[2]
                 /\ \E j \in DOMAIN configsForPackage(platform[p], tests[p]) :
                      configsForPackage(platform[p], tests[p])[j] = CONFIG_FILES[i]
            \/ k[1] = "root" /\ \E j \in DOMAIN wsCfgs : wsCfgs[j].name = k[2]
         THEN EnsureAll(CONFIG_FILES, [j \in CleanPaths |-> "absent"], k[1])[k]
         ELSE "absent"]

\* Which dist and node_modules directories exist before clean.
InitialDirs ==
  { [k \in FsDirs \X PackageDirs |-> FALSE],
    [k \in FsDirs \X PackageDirs |-> TRUE],
    [k \in FsDirs \X PackageDirs |-> k = <<"foo", "dist">>] }

\* `graco clean [-a] [-p ...]` on a workspace that was initialised or not,
\* where one config path holds anything at all.
InitClean ==
  /\ Parked
  /\ NoWorkspace
  /\ build = NoBuild
  /\ runner = Off
  /\ logger = Off
  /\ tui = Off
  /\ \E monorepo \in BOOLEAN, all \in BOOLEAN, inited \in BOOLEAN,
        platform \in {"node", "browser"}, tests \in BOOLEAN,
        dirs \in InitialDirs, at \in CleanPaths, kind \in Kinds,
        closure \in (SUBSET {"bar", "foo"}) \ {{}} :
       LET pkgs == IF monorepo THEN {"bar", "foo"} ELSE {"foo"}
           plat == [p \in {"bar", "foo"} |-> IF p = "foo" THEN platform ELSE "node"]
           tst == [p \in {"bar", "foo"} |-> p = "foo" /\ tests]
           base == IF inited THEN AfterInit(monorepo, plat, tst)
                   ELSE [k \in CleanPaths |-> "absent"]
           files == [base EXCEPT ![at] = kind]
       IN  /\ closure \subseteq pkgs
           /\ ~monorepo => at[1] = "root"
           /\ fsys = [phase |-> "clean", monorepo |-> monorepo, all |-> all,
                      pkgs |-> pkgs, closure |-> closure,
                      platform |-> plat, tests |-> tst,
                      files |-> files, before |-> files,
                      dirs |-> dirs, hadDirs |-> dirs,
                      stage |-> "clean", ran |-> {}, built |-> {},
                      exit |-> << >>]

\* fs.rm(path, {recursive: true, force: true}) for the given names of a
\* directory: what is there is removed, what is missing is no error.
RmConfigs(files, dir, names) ==
  [k \in DOMAIN files |->
     IF k[1] = dir /\ k[2] \in names THEN "absent" ELSE files[k]]

\* Mutant: rm removes no directory.
RmDirs_Nothing(dirs, dir, names) == dirs

RmDirs(dirs, dir, names) ==
  [k \in DOMAIN dirs |-> IF k[1] = dir /\ k[2] \in names THEN FALSE ELSE dirs[k]]

NamesOf(cfgs) == {cfgs[i].name : i \in DOMAIN cfgs}

\* CleanCommand.run(pkg)
CleanRun(p) ==
  /\ fsys.phase = "clean" /\ fsys.stage = "clean"
  /\ p \in fsys.closure \ fsys.ran
  /\ LET dir == DirOf(fsys.monorepo, p)
         cfgs == IF fsys.all
                 THEN findManagedConfigs(
                        configsForPackage(fsys.platform[p], fsys.tests[p]),
                        fsys.files, dir)
                 ELSE << >>
     IN  fsys' = [fsys EXCEPT
                    !.files = RmConfigs(@, dir, NamesOf(cfgs)),
                    !.dirs = RmDirs(@, dir, PackageDirs),
                    !.ran = @ \cup {p}]
  /\ UNCHANGED fsFrame

\* CleanCommand.runWorkspace(ws), then register's process.exit: both run and
\* runWorkspace return true.
CleanRunWorkspace ==
  /\ fsys.phase = "clean" /\ fsys.stage = "clean"
  /\ fsys.ran = fsys.closure
  /\ LET cfgs == IF fsys.all
                 THEN findManagedConfigs(configsForWorkspace(fsys.monorepo),
                                         fsys.files, "root")
                 ELSE << >>
     IN  fsys' = [fsys EXCEPT
                    !.files = RmConfigs(@, "root", NamesOf(cfgs)),
                    !.dirs = RmDirs(@, "root", WorkspaceDirs),
                    !.stage = "cleaned",
                    !.exit = <<ExitCodeOf(TRUE /\ TRUE)>>]
  /\ UNCHANGED fsFrame

\* BuildCommand.run(pkg) of a following build: await fs.mkdirp(pkg.path("dist"))
BuildMkdir(p) ==
  /\ fsys.phase = "clean" /\ fsys.stage = "cleaned"
  /\ p \in fsys.closure \ fsys.built
  /\ fsys' = [fsys EXCEPT
                !.dirs[<<DirOf(fsys.monorepo, p), "dist">>] = TRUE,
                !.built = @ \cup {p}]
  /\ UNCHANGED fsFrame

NextClean ==
  \/ \E p \in {"bar", "foo"} : CleanRun(p)
  \/ CleanRunWorkspace
  \/ \E p \in {"bar", "foo"} : BuildMkdir(p)

CleanSpec == InitClean /\ [][NextClean]_vars

(* --------------------------- command aliases -------------------------- *)

\* gracoSynonyms and pnpmSynonyms: the subcommands each alias chains.
Synonyms ==
  [ commitcheck |-> <<"clean", "init", "build", "test">>,
    prepare |-> <<"init", "build --release">>,
    add |-> <<"pnpm add">>,
    update |-> <<"pnpm update">>,
    link |-> <<"pnpm link">> ]

\* Exit statuses a subcommand may end with.
SubStatuses == {0, 1, 2, 130}

InitAlias ==
  /\ Parked
  /\ NoWorkspace
  /\ build = NoBuild
  /\ fsys = Off
  /\ logger = Off
  /\ tui = Off
  /\ \E a \in DOMAIN Synonyms, dev \in BOOLEAN :
       runner = [phase |-> "alias", alias |-> a, devMode |-> dev,
                 started |-> << >>, statuses |-> << >>,
                 shell |-> << >>, logged |-> "none", exit |-> << >>]

\* cmd1 && cmd2 && ...: the shell starts the first subcommand, and each next
\* one when the one before has ended with status 0.
SubStart ==
  /\ runner.phase = "alias" /\ runner.shell = << >>
  /\ Len(runner.started) = Len(runner.statuses)
  /\ Len(runner.started) < Len(Synonyms[runner.alias])
  /\ \A i \in DOMAIN runner.statuses : runner.statuses[i] = 0
  /\ runner' = [runner EXCEPT
                  !.started = Append(@, Synonyms[runner.alias][Len(@) + 1])]
  /\ UNCHANGED runnerFrame

SubExit(code) ==
  /\ runner.phase = "alias" /\ runner.shell = << >>
  /\ Len(runner.started) = Len(runner.statuses) + 1
  /\ runner' = [runner EXCEPT !.statuses = Append(@, code)]
  /\ UNCHANGED runnerFrame

\* The shell ends with the status of the last subcommand it ran.
ShellExit ==
  /\ runner.phase = "alias" /\ runner.shell = << >>
  /\ Len(runner.started) = Len(runner.statuses)
  /\ \/ Len(runner.statuses) = Len(Synonyms[runner.alias])
     \/ \E i \in DOMAIN runner.statuses : runner.statuses[i] # 0
  /\ runner' = [runner EXCEPT !.shell = <<runner.statuses[Len(runner.statuses)]>>]
  /\ UNCHANGED runnerFrame

\* What the catch of parseAsync logs.
ErrorLog(dev) == IF dev THEN "stack" ELSE "message"

\* cp.execSync returns, or throws when the shell's status is not 0. The
\* throw leaves the action and rejects parseAsync, whose catch logs the error
\* and sets no exit status: either way the process ends with status 0.
AliasEnd ==
  /\ runner.phase = "alias" /\ runner.shell # << >> /\ runner.exit = << >>
  /\ runner' = [runner EXCEPT
                  !.logged = IF runner.shell[1] = 0 THEN "none"
                             ELSE ErrorLog(runner.devMode),
                  !.exit = <<0>>]
  /\ UNCHANGED runnerFrame

NextAlias ==
  \/ SubStart
  \/ \E code \in SubStatuses : SubExit(code)
  \/ ShellExit
  \/ AliasEnd

AliasSpec == InitAlias /\ [][NextAlias]_vars

(* ------------------------- command dispatch --------------------------- *)

\* register(): the action of a command constructs that command alone and
\* passes it to ws.run; these are the commands one invocation runs.
CommandsRun == <<cmd.name>>

(* ------------------------------ spawn --------------------------------- *)

\* Calls of spawn() in one run.
MaxSpawns == 3

\* Exit codes the onExit event of a child may carry.
PtyExitCodes == {0, 1, 2, 127}

\* One call of spawn(): pty.spawn threw and the catch returned false ...
SpawnFailed ==
  [spawned |-> FALSE, logged |-> TRUE, code |-> << >>,
   ret |-> <<"fail">>, threw |-> FALSE]

\* ... or a child exists and the call awaits its onExit event.
SpawnAwaiting ==
  [spawned |-> TRUE, logged |-> FALSE, code |-> << >>,
   ret |-> << >>, threw |-> FALSE]

InitSpawn ==
  /\ Parked
  /\ NoWorkspace
  /\ build = NoBuild
  /\ fsys = Off
  /\ logger = Off
  /\ tui = Off
  /\ runner = [phase |-> "spawn", calls |-> << >>]

\* spawn({script, opts, cwd, onData}) up to the await of the exit promise.
SpawnCall(throws) ==
  /\ runner.phase = "spawn"
  /\ Len(runner.calls) < MaxSpawns
  /\ runner' = [runner EXCEPT !.calls =
                  Append(@, IF throws THEN SpawnFailed ELSE SpawnAwaiting)]
  /\ UNCHANGED runnerFrame

\* p.onExit(({exitCode}) => resolve(exitCode)); return exitCode == 0.
SpawnExit(i, code) ==
  /\ runner.phase = "spawn"
  /\ i \in DOMAIN runner.calls
  /\ runner.calls[i].spawned
  /\ runner.calls[i].ret = << >>
  /\ runner' = [runner EXCEPT !.calls[i].code = <<code>>,
                              !.calls[i].ret = <<SpawnResult(code)>>]
  /\ UNCHANGED runnerFrame

NextSpawn ==
  \/ \E throws \in BOOLEAN : SpawnCall(throws)
  \/ \E i \in 1..MaxSpawns, code \in PtyExitCodes : SpawnExit(i, code)

SpawnSpec == InitSpawn /\ [][NextSpawn]_vars

(* ------------------ OnceLogger shared by several packages ------------- *)

\* log() calls in one build invocation.
MaxOnceLogs == 3

\* The fragment of a call: what the n-th output of a package's process is.
FragmentOf(pkg, calls) ==
  <<pkg, Len(SelectSeq(calls, LAMBDA c : c.pkg = pkg)) + 1>>

\* new OnceLogger() in the BuildCommand constructor: one logger for the
\* whole invocation; no package's run has started.
InitOnceRun ==
  /\ Parked
  /\ NoWorkspace
  /\ build = NoBuild
  /\ fsys = Off
  /\ runner = Off
  /\ tui = Off
  /\ logger = [phase |-> "onceRun",
               logs |-> [n \in Panes |-> << >>],
               calls |-> << >>,
               run |-> [p \in Producers |-> "idle"],
               stdout |-> << >>]

\* BuildCommand.run(pkg) up to Promise.all: mkdirp, this.logger.start()
\* (which does nothing for OnceLogger) and the five processes started.
OnceRunStart(p) ==
  /\ logger.phase = "onceRun"
  /\ logger.run[p] = "idle"
  /\ logger' = [logger EXCEPT !.run[p] = "running"]
  /\ UNCHANGED loggerFrame

\* onData of a process of the running package p: this.logger.log(p, name, data).
OnceRunLog(p, name) ==
  /\ logger.phase = "onceRun"
  /\ logger.run[p] = "running"
  /\ Len(logger.calls) < MaxOnceLogs
  /\ LET data == FragmentOf(p, logger.calls) IN
       logger' = [logger EXCEPT
                    !.logs[name] = Push(@, data),
                    !.calls = Append(@, [pkg |-> p, name |-> name, data |-> data])]
  /\ UNCHANGED loggerFrame

\* Promise.all of p has settled: this.logger.end() writes every entry of
\* this.logs to stdout; the entries are kept.
OnceRunEnd(p) ==
  /\ logger.phase = "onceRun"
  /\ logger.run[p] = "running"
  /\ logger' = [logger EXCEPT !.run[p] = "ended",
                              !.stdout = @ \o PrintFrom(logger.logs, 1)]
  /\ UNCHANGED loggerFrame

NextOnceRun ==
  \/ \E p \in Producers : OnceRunStart(p)
  \/ \E p \in Producers, name \in Panes : OnceRunLog(p, name)
  \/ \E p \in Producers : OnceRunEnd(p)

OnceRunSpec == InitOnceRun /\ [][NextOnceRun]_vars

(* --------------------- serve over several packages -------------------- *)

\* server.listen(8000)
ServePort == 8000

\* The packages of the closure with their platform and target; serve() has
\* been called for none of them.
InitServe ==
  /\ Parked
  /\ NoWorkspace
  /\ fsys = Off
  /\ runner = Off
  /\ logger = Off
  /\ tui = Off
  /\ \E w \in BOOLEAN, kind \in [Names -> PlatformTargets] :
       build = [phase |-> "serve", watch |-> w, kind |-> kind,
                serve |-> [p \in Names |-> "idle"],
                listens |-> << >>, bound |-> << >>, inUse |-> {}]

serveFrame == <<schedVars, outcome, fsys, runner, logger, tui>>

\* serve(pkg), called from run(pkg) of every package of the closure: for a
\* browser bin package under watch a server is created and listen(8000) is
\* called. A port is bound by one listener; a later listen on it fails with
\* EADDRINUSE. serve returns true in every case.
Serve(p) ==
  /\ build.phase = "serve"
  /\ build.serve[p] = "idle"
  /\ LET pkg == [platform |-> build.kind[p][1], target |-> build.kind[p][2],
                 watch |-> build.watch]
     IN  build' =
           IF ServeListens(pkg)
           THEN [build EXCEPT
                   !.serve[p] = "ok",
                   !.listens = Append(@, [pkg |-> p, port |-> ServePort]),
                   !.bound = IF @ = << >> THEN <<p>> ELSE @,
                   !.inUse = IF build.bound = << >> THEN @ ELSE @ \cup {p}]
           ELSE [build EXCEPT !.serve[p] = "ok"]
  /\ UNCHANGED serveFrame

NextServe == \E p \in Names : Serve(p)

ServeSpec == InitServe /\ [][NextServe]_vars

(* --------------------------- build --watch ---------------------------- *)

\* log() calls in one watch run.
MaxWatchLogs == 1

\* Mutant: a process logs to the pane that PROCESSES has commented out.
LogSites_Graco == {"build", "check", "lint", "script", "graco"}

\* The pane names BuildCommand passes to this.logger.log.
LogSites == {"build", "check", "lint", "script"}

\* new PackageLog(screen, gridHeight): one ProcessLog per entry of PROCESSES.
PaneGroup(packages) == [p \in Range(packages) |-> Range(PROCESSES)]

\* `graco build -w [-p names]` before Workspace.load.
InitWatchRun ==
  /\ pkgNames \in SUBSET Names
  /\ \E E \in SUBSET (pkgNames \X Names) :
       /\ Cardinality(E) <= MaxLoadDeps
       /\ manifest = [p \in pkgNames |-> ManifestOf(E, p)]
  /\ depGraph = << >>
  /\ cmd = BuildCommand(TRUE)
  /\ only \in [given : {FALSE}, names : {{}}]
              \cup [given : {TRUE}, names : (SUBSET Names) \ {{}}]
  /\ pc = "load"
  /\ status = << >>
  /\ result = [p \in Names |-> "none"]
  /\ promise = "none"
  /\ pkgSuccess = "none"
  /\ wsCalls = 0
  /\ wsResult = "none"
  /\ wsOverlap = FALSE
  /\ exitCode = "none"
  /\ build = NoBuild
  /\ outcome = [p \in Names |-> "any"]
  /\ fsys = Off
  /\ runner = Off
  /\ logger = [phase |-> "watchRun", calls |-> << >>]
  /\ \E roots \in Orders(RootSet) :
       tui = [phase |-> "new", roots |-> roots]

\* new Cmd(flags, ws) in register's action: the BuildCommand constructor
\* creates the WatchLogger once the workspace is loaded.
WatchConstruct ==
  /\ pc = "run"
  /\ TuiConstruct

\* The constructor threw: the action's promise is rejected, ws.run is never
\* called.
WatchConstructThrew ==
  /\ pc = "run"
  /\ tui.phase = "threw"
  /\ pc' = "threw"
  /\ UNCHANGED <<wsVars, depGraph, status, result, promise, pkgSuccess,
                 wsCalls, wsResult, wsOverlap, exitCode, auxVars>>

\* onData of a process of a package whose run is under way:
\* this.packages[pkg].log(process, data), i.e. this.processes[name].log(data).
\* found tells whether both lookups gave an object.
WatchLog(p, name) ==
  /\ logger.phase = "watchRun"
  /\ tui.phase = "on"
  /\ result[p] = "pending"
  /\ name \in LogSites
  /\ Len(logger.calls) < MaxWatchLogs
  /\ LET groups == PaneGroup(tui.packages)
         found == p \in DOMAIN groups /\ name \in groups[p]
     IN  logger' = [logger EXCEPT !.calls =
                      Append(@, [pkg |-> p, name |-> name, found |-> found])]
  /\ UNCHANGED <<schedVars, build, outcome, fsys, runner, tui>>

\* ws.run(cmd, flags.packages) with the command constructed, in parallel
\* mode since watch is set.
NextWatchRun ==
  \/ WorkspaceLoad
  \/ WatchConstruct
  \/ WatchConstructThrew
  \/ tui.phase = "on" /\ RunPackagesEnter
  \/ \E p \in Names, success \in BOOLEAN : ParallelTaskDone(p, success)
  \/ ParallelReturn
  \/ RunWorkspaceSkip
  \/ ProcessExit
  \/ CaughtExit
  \/ \E p \in Names, name \in Panes \cup UnknownPanes : WatchLog(p, name)

WatchRunSpec == InitWatchRun /\ [][NextWatchRun]_vars

(* ----------------------- package names and pkgMap --------------------- *)

\* The directories packages/ can hold, in the order readdirSync lists them.
PkgDirOrder == <<"a", "b", "c">>

\* The name field of a manifest: absent or empty (<< >>), or a string, which
\* may be the name of a sibling's directory.
ManifestNames == {<< >>, <<"foo">>, <<"bar">>, <<"b">>}

\* this.name = manifest.name || path.basename(dir)
PackageName(dir, mname) == IF mname = << >> THEN dir ELSE mname[1]

\* _.fromPairs(packages.map(pkg => [pkg.name, pkg])): a later pair with the
\* same key replaces an earlier one.
RECURSIVE FromPairs(_, _)
FromPairs(pairs, i) ==
  IF i = 0 THEN << >>
  ELSE LET before == FromPairs(pairs, i - 1)
           key == pairs[i][1]
       IN  [k \in DOMAIN before \cup {key} |->
              IF k = key THEN pairs[i][2] ELSE before[k]]

\* A monorepo whose packages/ holds some directories, each with a manifest.
InitNames ==
  /\ Parked
  /\ NoWorkspace
  /\ build = NoBuild
  /\ runner = Off
  /\ logger = Off
  /\ tui = Off
  /\ \E present \in SUBSET Range(PkgDirOrder) :
       \E mname \in [present -> ManifestNames] :
         fsys = [phase |-> "names", stage |-> "new",
                 dirs |-> SelectSeq(PkgDirOrder, LAMBDA d : d \in present),
                 mname |-> mname,
                 packages |-> << >>, pkgMap |-> << >>, runs |-> << >>]

\* Workspace.load and the constructor: one Package per directory, then pkgMap.
NamesLoad ==
  /\ fsys.phase = "names"
  /\ fsys.stage = "new"
  /\ LET packages == [i \in DOMAIN fsys.dirs |->
                        [dir |-> fsys.dirs[i],
                         name |-> PackageName(fsys.dirs[i],
                                              fsys.mname[fsys.dirs[i]])]]
         pairs == [i \in DOMAIN packages |->
                     <<packages[i].name, packages[i].dir>>]
     IN  fsys' = [fsys EXCEPT !.stage = "loaded",
                              !.packages = packages,
                              !.pkgMap = FromPairs(pairs, Len(pairs))]
  /\ UNCHANGED fsFrame

\* runPackages(cmd) with default roots: rootSet is the packages' names,
\* dependencyClosure makes a Set of them (no package depends on another
\* here) and maps each name through pkgMap; cmd.run is called once for each
\* element of the result. runs counts the calls by package directory.
NamesRun ==
  /\ fsys.phase = "names"
  /\ fsys.stage = "loaded"
  /\ LET rootSet == {fsys.packages[i].name : i \in DOMAIN fsys.packages}
         pkgs == [n \in rootSet |-> fsys.pkgMap[n]]
     IN  fsys' = [fsys EXCEPT
                    !.stage = "ran",
                    !.runs = [d \in Range(fsys.dirs) |->
                                Cardinality({n \in rootSet : pkgs[n] = d})]]
  /\ UNCHANGED fsFrame

NextNames ==
  \/ NamesLoad
  \/ NamesRun

NamesSpec == InitNames /\ [][NextNames]_vars

(* -------------------------- PackageLog layout ------------------------- *)

\* Terminal widths and grid heights tried.
MaxWidth == 8

MaxGridHeight == 6

\* Math.round((gridHeight * 2) / 3): the nearest integer, halves upwards.
TopRowHeight(gridHeight) == (4 * gridHeight + 3) \div 6

\* Math.floor(frac * width) with frac = 0.5, the fraction of every entry of
\* PROCESSES.
BoxWidth(width) == width \div 2

\* PackageLog constructor before the loop: left = 0, top = 0,
\* curHeight = topRowHeight, no pane created.
InitLayout ==
  /\ Parked
  /\ NoWorkspace
  /\ build = NoBuild
  /\ fsys = Off
  /\ runner = Off
  /\ logger = Off
  /\ \E width \in 1..MaxWidth, gridHeight \in 0..MaxGridHeight :
       tui = [phase |-> "layout", width |-> width, gridHeight |-> gridHeight,
              left |-> 0, top |-> 0, curHeight |-> TopRowHeight(gridHeight),
              panes |-> << >>]

\* One iteration of PROCESSES.forEach: the pane is created at (top, left)
\* with boxWidth and curHeight; left advances and, once it has reached the
\* screen width, the position moves to the start of the bottom row.
PlacePane ==
  /\ tui.phase = "layout"
  /\ Len(tui.panes) < Len(PROCESSES)
  /\ LET name == PROCESSES[Len(tui.panes) + 1]
         boxWidth == BoxWidth(tui.width)
         pane == [name |-> name, top |-> tui.top, left |-> tui.left,
                  width |-> boxWidth, height |-> tui.curHeight]
         left == tui.left + boxWidth
         wrap == left >= tui.width
     IN  tui' = [tui EXCEPT
                   !.panes = Append(@, pane),
                   !.left = IF wrap THEN 0 ELSE left,
                   !.top = IF wrap THEN TopRowHeight(tui.gridHeight) ELSE @,
                   !.curHeight = IF wrap
                                 THEN tui.gridHeight - TopRowHeight(tui.gridHeight)
                                 ELSE @]
  /\ UNCHANGED tuiFrame

NextLayout == PlacePane

LayoutSpec == InitLayout /\ [][NextLayout]_vars

(* ============================ claims ================================== *)

\* Packages whose per-package task was invoked (cmd.run(pkg) was called).
Invoked == {p \in Names : result[p] # "none"}

Settled(p) == result[p] \in {"ok", "fail"}

WaveMode == ~cmd.parallel /\ pc \notin {"load", "run", "threw"}

\* The direct dependency relation has a cycle: some nonempty set of packages
\* in which every package directly depends on a member of the set.
DirectCyclic ==
  \E S \in (SUBSET pkgNames) \ {{}} : \A p \in S : DirectDeps(p) \cap S # {}

\* The least set of packages that contains roots and is closed under depGraph.
LeastClosed(roots) ==
  CHOOSE S \in SUBSET pkgNames :
    /\ roots \subseteq S
    /\ \A p \in S : depGraph[p] \subseteq S
    /\ \A T \in SUBSET pkgNames :
         (roots \subseteq T /\ \A p \in T : depGraph[p] \subseteq T)
           => S \subseteq T

\* C1: in wave mode a package's task has been started only if every package
\* of its depGraph entry is finished (its task has settled); so when bar
\* depends on foo, foo has finished before bar starts.
C1_StartsAfterDeps ==
  WaveMode =>
    \A q \in DOMAIN status :
      status[q] # "queued" =>
        \A d \in depGraph[q] : status[d] = "finished" /\ Settled(d)

C1_Witness ==
  /\ WaveMode
  /\ "bar" \in DOMAIN status /\ "foo" \in DOMAIN status
  /\ "foo" \in DirectDeps("bar")
  /\ status["bar"] = "running"
  /\ status["foo"] = "finished"

\* C2: if a task returned failure in wave mode, the command's result is
\* failure and when the process exits every package of the closure has run
\* to completion (none queued, none running).
C2_FailureRunsAllToCompletion ==
  (pc = "exited" /\ WaveMode /\ \E p \in Names : result[p] = "fail") =>
    /\ exitCode = 1
    /\ \A p \in DOMAIN status : status[p] = "finished"

\* C3: whenever the wave scheduler has returned its result, success or
\* failure, every package of the closure is finished.
C3_ReturnedMeansAllFinished ==
  (WaveMode /\ pkgSuccess # "none") =>
    \A p \in DOMAIN status : status[p] = "finished"

\* C4: for an acyclic direct dependency relation and every root set, also
\* one with an empty closure, the wave scheduler never waits on its promise
\* with no task running (each running task eventually completes, so this is
\* the only way it can wait forever).
C4_NeverStarved ==
  (pc # "load" /\ ~DirectCyclic) => ~Starved

\* C5: after load, every depGraph[p] holds only keys of pkgMap and depGraph
\* is transitively closed.
C5_DepGraphClosed ==
  pc # "load" =>
    /\ DOMAIN depGraph = pkgNames
    /\ \A p \in pkgNames :
         /\ depGraph[p] \subseteq pkgNames
         /\ \A q \in depGraph[p] : depGraph[q] \subseteq depGraph[p]

C5_Witness ==
  /\ pc # "load"
  /\ \E p \in pkgNames :
       /\ depGraph[p] # DirectDeps(p)
       /\ \E n \in manifest[p].peerDependencies : n \notin pkgNames

\* C6: with a cycle in the direct dependency relation startup fails: the
\* scheduler is never entered and no per-package task is ever started.
C6_CycleFailsStartup ==
  DirectCyclic =>
    /\ pc \in {"load", "run", "threw"}
    /\ Invoked = {}

\* C7: the packages whose task is invoked are exactly the dependency closure
\* of the roots: never one outside the closure, and all of the closure once
\* runPackages has returned success.
C7_InvokedIsClosure ==
  pc # "load" =>
    IF RootSet \subseteq pkgNames
    THEN /\ Invoked \subseteq LeastClosed(RootSet)
         /\ pkgSuccess = "ok" => Invoked = LeastClosed(RootSet)
    ELSE Invoked = {}

C7_Witness ==
  /\ only.given
  /\ only.names = {"bar"}
  /\ pkgNames = Names
  /\ pkgSuccess = "ok"
  /\ Invoked = {"bar", "foo"}

\* C8: the exit code is 0 iff every invoked per-package task returned success
\* and the per-workspace task, when the command has one, returned success;
\* it is 1 in every other case.
C8_ExitCodeIsAggregate ==
  pc = "exited" =>
    IF (\A p \in Invoked : result[p] = "ok") /\ (cmd.hasWs => wsResult = "ok")
    THEN exitCode = 0
    ELSE exitCode = 1

\* C9: for a command with both operations the per-workspace operation is
\* invoked exactly once per invocation, whatever the per-package outcome, and
\* never while a started per-package task is unfinished.
C9_WorkspaceOnceAfterPackages ==
  cmd.hasWs =>
    /\ wsCalls <= 1
    /\ ~wsOverlap
    /\ pc = "exited" => wsCalls = 1

Entered == pc \notin {"load", "run", "threw"} /\ RootSet \subseteq pkgNames

\* C11: BuildCommand.parallel() is true iff watch is set; under watch every
\* package of the closure is started at once, whatever its dependencies, and
\* without watch the dependency-ordered wave scheduler runs.
C11_ParallelIffWatch ==
  cmd.name = "build" =>
    /\ cmd.parallel <=> cmd.watch
    /\ Entered =>
         IF cmd.watch
         THEN /\ promise = "none" /\ status = << >>
              /\ Invoked = LeastClosed(RootSet)
         ELSE /\ promise # "none"
              /\ DOMAIN status = LeastClosed(RootSet)
              /\ \A q \in DOMAIN status :
                   status[q] # "queued" =>
                     \A d \in depGraph[q] : status[d] = "finished"

C11_Witness ==
  /\ cmd.name = "build" /\ cmd.watch
  /\ pc = "awaitAll"
  /\ "bar" \in pkgNames /\ "foo" \in DirectDeps("bar")
  /\ result["bar"] = "pending" /\ result["foo"] = "pending"

\* What the fixed outcomes of the closure's packages aggregate to.
Expected ==
  IF \A p \in LeastClosed(RootSet) : outcome[p] = "ok" THEN "ok" ELSE "fail"

\* C12: with workspace, roots and every task's outcome fixed, the result the
\* scheduler returns does not depend on the interleaving: in both modes it is
\* the conjunction of the outcomes of the closure's packages.
C12_ResultDeterminedByOutcomes ==
  pkgSuccess # "none" => pkgSuccess = Expected

C12_Witness ==
  /\ ~cmd.parallel
  /\ pkgSuccess = "fail"
  /\ outcome["bar"] = "fail" /\ outcome["foo"] = "ok"
  /\ result["bar"] = "fail" /\ result["foo"] = "pending"

\* C13: on SIGINT or SIGTERM every spawned child still running has been sent
\* a kill, children spawned after the signal included, and no spawned child
\* is running once the orchestrator has exited.
C13_SignalKillsEveryChild ==
  (runner.phase = "on" /\ runner.signalled) =>
    /\ Running(runner) \subseteq runner.killed
    /\ ~runner.alive => Running(runner) = {}

\* C14: a user cancel (q, escape or ctrl-c in the watch-mode UI, SIGINT
\* outside watch mode) ends the orchestrator with status 130, after the
\* spawned children have terminated, and never with status 0.
C14_CancelExits130 ==
  (runner.phase = "on" /\ runner.cancel /\ ~runner.alive) =>
    /\ runner.exit = <<130>>
    /\ Running(runner) = {}

\* C15: if workspace load fails (no root, an unreadable manifest, a package
\* without entry file, even outside the -p closure), no per-package and no
\* per-workspace task is started and the process exits with status 1.
C15_LoadFailureExitsOne ==
  (fsys.phase = "load" /\ LoadThrows(fsys)) =>
    /\ Invoked = {}
    /\ wsCalls = 0
    /\ pc = "exited" => exitCode = 1

\* Precedence of a candidate file: basename first (lib, main, index), then
\* extension (tsx, ts, js).
BaseRank(b) == CASE b = "lib" -> 0 [] b = "main" -> 1 [] b = "index" -> 2

ExtRank(e) == CASE e = "tsx" -> 0 [] e = "ts" -> 1 [] e = "js" -> 2

FileRank(f) == 3 * BaseRank(f[1]) + ExtRank(f[2])

PlatformTarget(b) ==
  CASE b = "lib" -> <<"node", "lib">>
    [] b = "main" -> <<"node", "bin">>
    [] b = "index" -> <<"browser", "bin">>

\* C16: the entry point is the existing candidate of least precedence rank
\* (basename lib, main, index dominating extension tsx, ts, js), platform and
\* target follow the basename, and construction fails iff none of the nine
\* candidate files exists.
C16_EntryPointPrecedence ==
  (fsys.phase = "pkg" /\ fsys.made # << >>) =>
    LET pkg == fsys.made[1]
        present == fsys.files \cap Candidates
    IN  /\ pkg.ok <=> present # {}
        /\ pkg.ok =>
             LET e == pkg.entryPoint[1]
             IN  /\ e \in present
                 /\ \A f \in present : FileRank(e) <= FileRank(f)
                 /\ <<pkg.platform, pkg.target>> = PlatformTarget(e[1])

C16_Witness ==
  /\ fsys.phase = "pkg" /\ fsys.made # << >>
  /\ {<<"lib", "js">>, <<"main", "tsx">>} \subseteq fsys.files
  /\ <<"lib", "tsx">> \notin fsys.files /\ <<"lib", "ts">> \notin fsys.files
  /\ fsys.made[1].entryPoint = <<<<"lib", "js">>>>
  /\ fsys.made[1].target = "lib"

\* The directories on the path from cwd up to the repository root.
Ancestors(cwd) == {SubSeq(cwd, 1, k) : k \in 0..Len(cwd)}

\* C17: discovery returns the nearest directory on the path from the current
\* directory up to the repository root (both inclusive) that holds a
\* package.json, and fails only if no directory on that path holds one.
C17_NearestAncestorManifest ==
  (fsys.phase = "root" /\ fsys.done) =>
    LET onPath == Ancestors(fsys.cwd) \cap fsys.manifests
    IN  IF onPath = {} THEN fsys.root = << >>
        ELSE /\ fsys.root # << >>
             /\ fsys.root[1] \in onPath
             /\ \A d \in onPath : Len(d) <= Len(fsys.root[1])

\* The fragments logged to a pane by the first n calls, in call order.
LoggedTo(name, n) ==
  LET sel == SelectSeq(SubSeq(logger.calls, 1, n), LAMBDA c : c.name = name)
  IN  [k \in DOMAIN sel |-> sel[k].data]

\* The lines of stdout between a pane's name line and the next rule.
Printed(name) ==
  LET out == logger.stdout
      at == CHOOSE i \in DOMAIN out :
              out[i] = [line |-> "name", text |-> name]
      stop == CHOOSE j \in DOMAIN out :
                /\ j > at /\ out[j].line = "rule"
                /\ \A k \in (at + 1)..(j - 1) : out[k].line # "rule"
  IN  [k \in 1..(stop - at - 1) |-> out[at + k].text]

\* C18: OnceLogger holds for every pane exactly the fragments logged to it,
\* in the order of the log() calls for that pane, whatever the interleaving of
\* the producers, and end() prints them in that order.
C18_PaneOrderPreserved ==
  logger.phase = "once" =>
    /\ \A name \in Panes :
         logger.logs[name] = LoggedTo(name, Len(logger.calls))
    /\ logger.ended =>
         \A name \in Panes : Printed(name) = LoggedTo(name, logger.endedAt)

C18_Witness ==
  /\ logger.phase = "once" /\ logger.ended
  /\ logger.endedAt = MaxLogs
  /\ \E i, j \in DOMAIN logger.calls :
       /\ i < j
       /\ logger.calls[i].name = "check" /\ logger.calls[j].name = "check"
       /\ logger.calls[i].pkg # logger.calls[j].pkg
       /\ logger.calls[i].data # logger.calls[j].data
  /\ \E i \in DOMAIN logger.calls : logger.calls[i].name = "build"

\* Exactly the pane group of `name` is visible and exactly its button is
\* green, every other button being black.
OnlyActive(name) ==
  /\ tui.visible = {name}
  /\ \A q \in DOMAIN tui.fg : tui.fg[q] = (IF q = name THEN "green" ELSE "black")

\* C19 as stated: after construction and after any clicks exactly one
\* package's pane group is visible, that of the last clicked button or the
\* initial one, and exactly its button is green.
C19_Original ==
  tui.phase = "on" =>
    IF tui.clicked # << >> THEN OnlyActive(tui.clicked[1])
    ELSE \E name \in Names : OnlyActive(name)

\* C19, amended: the same whenever the closure has at least one package; a
\* workspace without packages has no pane group and no button.
C19_OneVisibleWhenNonEmpty ==
  (tui.phase = "on" /\ tui.packages # << >>) =>
    IF tui.clicked # << >> THEN OnlyActive(tui.clicked[1])
    ELSE \E name \in Names : OnlyActive(name)

C19_Witness ==
  /\ tui.phase = "on"
  /\ Len(tui.packages) = 3
  /\ tui.clicked = <<tui.packages[3]>>
  /\ tui.visible = {tui.packages[3]}
  /\ tui.fg[tui.packages[1]] = "black"

\* C20: created with a single root, that package's pane group is the one
\* initially visible even when the closure adds packages; with no roots or
\* several, the first package of the closure is.
C20_InitialVisible ==
  (tui.phase = "on" /\ tui.clicked = << >> /\ tui.packages # << >>) =>
    tui.visible =
      {IF only.given /\ Cardinality(only.names) = 1
       THEN CHOOSE r \in only.names : TRUE
       ELSE tui.packages[1]}

C20_Witness ==
  /\ tui.phase = "on" /\ tui.clicked = << >>
  /\ only.given /\ only.names = {"bar"}
  /\ "foo" \in depGraph["bar"]
  /\ Len(tui.packages) >= 2
  /\ tui.visible = {"bar"}

\* C21: a fragment with the erase-line code removes the pane's last line;
\* every other fragment is appended with the cursor-home code stripped, so no
\* cursor-home code is ever present in what the pane holds.
C21_NoCursorHomeAppended ==
  logger.phase = "watch" =>
    \A i \in DOMAIN logger.lines : ~Includes(logger.lines[i], CursorHome)

\* C22: modifyGitignore is idempotent: for every initial content and every
\* fixed managed set, the second application writes what the first wrote.
C22_GitignoreIdempotent ==
  (fsys.phase = "gitignore" /\ Len(fsys.written) = 2) =>
    fsys.written[2] = fsys.written[1]

C22_Witness ==
  /\ fsys.phase = "gitignore" /\ Len(fsys.written) = 2
  /\ fsys.initial = <<"a", NL, HEADER>>
  /\ fsys.managed = {"vite.config.ts", "tsconfig.json"}
  /\ fsys.content = <<"a", NL, HEADER, NL, "vite.config.ts", NL, "tsconfig.json">>

\* C23: a second init right after a successful init changes no file: every
\* existing config file is left as it is during the whole second run, nothing
\* is created in it, and when it is over each .gitignore has the content it
\* had after the first init.
C23_SecondInitChangesNothing ==
  (fsys.phase = "init" /\ fsys.firstOk) =>
    /\ fsys.files = fsys.snapshot[1].files
    /\ fsys.jestTypes = fsys.snapshot[1].jestTypes
    /\ \A c \in fsys.created : c[1] = 1
    /\ fsys.pass = 3 => fsys.ignore = fsys.snapshot[1].ignore

C23_Witness ==
  /\ fsys.phase = "init" /\ fsys.firstOk /\ fsys.pass = 3
  /\ ~fsys.monorepo
  /\ fsys.files[<<"root", "tsconfig.json">>] = "link"
  /\ fsys.files[<<"root", "jest.config.cjs">>] = "copy"
  /\ fsys.files[<<"root", ".eslintrc.cjs">>] = "user"
  /\ fsys.ignore["root"] =
       <<"a", NL, HEADER, NL, ".prettierrc.cjs", NL, "tsconfig.json">>

\* C24: when clean is over, no package of the closure has a dist or a
\* node_modules directory and the root has no node_modules, the exit status
\* is 0 whether or not the directories existed, and a following build makes
\* each package's dist again.
C24_CleanRemovesDirs ==
  (fsys.phase = "clean" /\ fsys.stage = "cleaned") =>
    /\ fsys.exit = <<0>>
    /\ ~fsys.dirs[<<"root", "node_modules">>]
    /\ \A p \in fsys.closure :
         LET dir == DirOf(fsys.monorepo, p)
         IN  /\ ~fsys.dirs[<<dir, "node_modules">>]
             /\ fsys.dirs[<<dir, "dist">>] <=> p \in fsys.built

C24_Witness ==
  /\ fsys.phase = "clean" /\ fsys.stage = "cleaned"
  /\ fsys.monorepo /\ fsys.closure = {"bar", "foo"}
  /\ fsys.hadDirs[<<"foo", "dist">>] /\ ~fsys.hadDirs[<<"bar", "dist">>]
  /\ fsys.built = {"bar", "foo"}
  /\ fsys.dirs[<<"foo", "dist">>] /\ fsys.dirs[<<"bar", "dist">>]

\* The config paths of the packages clean runs on and of the workspace root.
CleanedPaths ==
  {k \in CleanPaths :
     \/ \E p \in fsys.closure :
          k[1] = DirOf(fsys.monorepo, p) /\ k[2] \in PackageConfigNames
     \/ k[1] = "root" /\ k[2] \in WorkspaceConfigNames}

\* C25: clean -a removes a config file of a package or of the root iff it is
\* a symlink into the asset directory; user files and copies stay, and clean
\* without -a removes no config file.
C25_RemovesExactlyManagedLinks ==
  (fsys.phase = "clean" /\ fsys.stage = "cleaned") =>
    \A k \in CleanedPaths :
      fsys.files[k] =
        (IF fsys.all /\ IsManaged(fsys.before[k]) THEN "absent" ELSE fsys.before[k])

\* C26: commit-check is clean && init && build && test and prepare is
\* init && build --release: the subcommands run in that order, each only
\* after the one before ended with status 0, none after the first failure,
\* and the alias ends with a non-zero status iff a subcommand failed.
C26_AliasChain ==
  (runner.phase = "alias" /\ runner.alias \in {"commitcheck", "prepare"}) =>
    /\ runner.started = SubSeq(Synonyms[runner.alias], 1, Len(runner.started))
    /\ \A i \in DOMAIN runner.started :
         \A j \in 1..(i - 1) : j \in DOMAIN runner.statuses /\ runner.statuses[j] = 0
    /\ runner.exit # << >> =>
         (runner.exit[1] = 0 <=>
            /\ Len(runner.statuses) = Len(Synonyms[runner.alias])
            /\ \A i \in DOMAIN runner.statuses : runner.statuses[i] = 0)

\* C27: commands run their command dependencies first: when test does its
\* own work build has been run, and when build does its own work init has.
C27_RunsCommandDependencies ==
  Invoked # {} =>
    /\ cmd.name = "test" => "build" \in Range(CommandsRun)
    /\ cmd.name = "build" => "init" \in Range(CommandsRun)

\* C28: build fails for a package whose source breaks a lint rule even when
\* type check and compile succeed.
C28_LintFailureFailsBuild ==
  (/\ build.phase = "done"
   /\ build.lintExit = <<1>>
   /\ build.checkExit = <<0>>
   /\ build.compile = "ok") => build.result = "fail"

\* C29: in the wave scheduler a package's status moves only queued ->
\* running -> finished, one step at a time, and under every interleaving of
\* completions its task is invoked at most once.
C29_StatusLifecycle ==
  [][ /\ \A p \in DOMAIN status :
           /\ p \in DOMAIN status'
           /\ \/ status'[p] = status[p]
              \/ status[p] = "queued" /\ status'[p] = "running"
              \/ status[p] = "running" /\ status'[p] = "finished"
      /\ \A p \in Names :
           (result'[p] = "pending" /\ result[p] # "pending") =>
             /\ result[p] = "none"
             /\ ~cmd.parallel =>
                  /\ p \in DOMAIN status'
                  /\ status'[p] = "running"
                  /\ p \in DOMAIN status => status[p] = "queued" ]_vars

C29_Witness ==
  /\ WaveMode
  /\ DOMAIN status = {"bar", "baz", "foo"}
  /\ {"bar", "foo"} \subseteq DirectDeps("baz")
  /\ status["bar"] = "finished" /\ status["foo"] = "finished"
  /\ status["baz"] = "running"
  /\ result["baz"] = "pending"

\* C30: if a task throws while the wave scheduler runs, the scheduler still
\* settles and the command is reported as failed: the exception does not end
\* the process past the top-level dispatcher, and the process does not end
\* with the scheduler never having returned.
C30_ThrowSettlesAsFailure ==
  (~cmd.parallel /\ \E p \in Names : result[p] = "threw") =>
    /\ pc # "crashed"
    /\ pc = "exited" => (pkgSuccess = "fail" /\ exitCode = 1)

\* The workspace packages named in one of the three dependency tables of p.
Edge(p) ==
  {n \in pkgNames : \/ n \in manifest[p].dependencies
                    \/ n \in manifest[p].devDependencies
                    \/ n \in manifest[p].peerDependencies}

\* Packages reached from p by a path of 1..n direct edges.
RECURSIVE ReachWithin(_, _)
ReachWithin(p, n) ==
  IF n = 0 THEN {}
  ELSE Edge(p) \cup UNION {ReachWithin(q, n - 1) : q \in Edge(p)}

\* Number of iterations of the while (true) loop of buildDepGraph.
RECURSIVE PassCount(_)
PassCount(g) ==
  LET h == PassFrom(g, 1) IN IF h = g THEN 1 ELSE 1 + PassCount(h)

\* C31: depGraph[p] is exactly the set of workspace packages reachable from
\* p by one or more direct dependency edges, and the fixed-point loop ends
\* after at most one pass per entry that can still be added, plus one.
C31_DepGraphIsReachability ==
  pc # "load" =>
    /\ \A p \in pkgNames : depGraph[p] = ReachWithin(p, Cardinality(pkgNames))
    /\ PassCount([p \in pkgNames |-> DirectDeps(p)])
         <= Cardinality(pkgNames) * Cardinality(pkgNames) + 1

C31_Witness ==
  /\ pc # "load"
  /\ \E p, q, r \in pkgNames :
       /\ p # q /\ q # r /\ p # r
       /\ q \in manifest[p].peerDependencies
       /\ r \in Edge(q)
       /\ r \notin Edge(p)
       /\ r \in depGraph[p]
       /\ p \notin depGraph[p]

SinkPackages(name) ==
  {logger.calls[i].pkg : i \in {k \in DOMAIN logger.calls :
                                  logger.calls[k].name = name}}

\* C33: a fragment logged with (package, pane) goes only to the sink of that
\* pair: the sink a pane name leads to never holds fragments of two packages.
C33_SinkPerPackageAndPane ==
  logger.phase = "once" =>
    \A name \in Panes :
      /\ logger.logs[name] = LoggedTo(name, Len(logger.calls))
      /\ Cardinality(SinkPackages(name)) <= 1

\* How many lines of stdout carry the fragment `data`.
TimesWritten(data) ==
  Cardinality({k \in DOMAIN logger.stdout :
                 logger.stdout[k] = [line |-> "log", text |-> data]})

\* C34: in once mode over several packages every logged fragment is written
\* to stdout exactly once: never twice, once when its package's run has
\* ended, and not while its package's processes are still running.
C34_EachFragmentWrittenOnce ==
  logger.phase = "onceRun" =>
    \A i \in DOMAIN logger.calls :
      LET c == logger.calls[i] IN
        /\ TimesWritten(c.data) <= 1
        /\ logger.run[c.pkg] = "ended" => TimesWritten(c.data) = 1
        /\ logger.run[c.pkg] = "running" => TimesWritten(c.data) = 0

\* C35: under watch the packages of the closure do not contend for port
\* 8000: at most one server asks to listen on it in one invocation, and no
\* listen finds the port in use, however many browser bin packages there are.
C35_OneServerOnPort ==
  build.phase = "serve" =>
    /\ Len(build.listens) <= 1
    /\ build.inUse = {}

\* C36: under watch the packages with a pane group are the packages the
\* scheduler runs, every pane group has the four panes, and every log call
\* of a running build finds its pane.
C36_PanesCoverRunningPackages ==
  (logger.phase = "watchRun" /\ tui.phase = "on") =>
    /\ Invoked \subseteq Range(tui.packages)
    /\ pc = "awaitAll" => Invoked = Range(tui.packages)
    /\ \A p \in Range(tui.packages) :
         PaneGroup(tui.packages)[p] = {"build", "check", "lint", "script"}
    /\ \A i \in DOMAIN logger.calls : logger.calls[i].found

C36_Witness ==
  /\ logger.phase = "watchRun" /\ tui.phase = "on"
  /\ only.given
  /\ \E p \in Range(tui.packages) \ only.names :
       \E i \in DOMAIN logger.calls :
         logger.calls[i].pkg = p /\ logger.calls[i].name = "script"

\* C37: pkgMap has one entry per element of packages, pkgMap[p.name] is p
\* for every package p, and a run with default roots calls the per-package
\* task exactly once for every element of packages.
C37_PkgMapOnePerPackage ==
  (fsys.phase = "names" /\ fsys.stage # "new") =>
    /\ Cardinality(DOMAIN fsys.pkgMap) = Len(fsys.packages)
    /\ \A i \in DOMAIN fsys.packages :
         fsys.pkgMap[fsys.packages[i].name] = fsys.packages[i].dir
    /\ fsys.stage = "ran" =>
         \A i \in DOMAIN fsys.packages : fsys.runs[fsys.packages[i].dir] = 1

\* C38: when -p names a package that is not in the workspace, no
\* per-package and no per-workspace task is started and the process exits
\* with status 1.
C38_UnknownNameFailsCleanly ==
  (only.given /\ only.names \ pkgNames # {}) =>
    /\ Invoked = {}
    /\ wsCalls = 0
    /\ pc = "exited" => exitCode = 1

\* The integer nearest to two thirds of h: 3 * r is within 1 of 2 * h.
NearestTwoThirds(h) ==
  CHOOSE r \in 0..h : 3 * r <= 2 * h + 1 /\ 2 * h <= 3 * r + 1

\* C39: for every width and grid height the four panes form a grid two
\* columns wide in reading order (build, check above lint, script), no pane
\* reaches past the screen width, the top row is two thirds of the grid
\* height rounded, and the two row heights add up to the grid height.
C39_TwoByTwoGrid ==
  (tui.phase = "layout" /\ Len(tui.panes) = Len(PROCESSES)) =>
    LET pane == [i \in DOMAIN tui.panes |-> tui.panes[i]]
        topH == NearestTwoThirds(tui.gridHeight)
    IN  /\ pane[1].name = "build" /\ pane[2].name = "check"
        /\ pane[3].name = "lint" /\ pane[4].name = "script"
        /\ pane[1].top = 0 /\ pane[2].top = 0
        /\ pane[3].top = topH /\ pane[4].top = topH
        /\ pane[1].left = 0 /\ pane[3].left = 0
        /\ pane[2].left = pane[1].width /\ pane[4].left = pane[3].width
        /\ \A i \in DOMAIN pane : pane[i].left + pane[i].width <= tui.width
        /\ pane[1].height = topH /\ pane[2].height = topH
        /\ pane[3].height = tui.gridHeight - topH
        /\ pane[4].height = tui.gridHeight - topH

====
